---- MODULE Spec2Model ----
(***************************************************************************)
(* Agent orchestration engine of janus-prop-ai (Backend/AI_bot/core):      *)
(* the agent registry, the routing of queries, the health monitor, the     *)
(* workflow engine and the bus endpoints of AgentManager and               *)
(* CommunicationManager, as a state machine whose actions are the atomic   *)
(* segments of the coroutines (the code between two awaits that suspend).  *)
(***************************************************************************)
EXTENDS Integers, Sequences, FiniteSets, TLC

\* ------------------------------------------------------------------ bounds
\* uuid4() is modelled as a counter; MaxUuid caps the ids ever drawn
\* (one per workflow, one per step).
MaxUuid == 4
\* execute_workflow calls ever made (they may run concurrently)
MaxCalls == 2
\* register_agent / unregister_agent calls that may run concurrently
MaxRegCalls == 1
\* query_agent calls ever made (they may run concurrently)
MaxQueries == 2
\* datetime.utcnow() values ever read by the registry and the monitor
MaxClock == 2
\* tasks of _process_agent_messages ever created
MaxTasks == 3
\* messages ever constructed by the callers and handlers of the bus
MaxMessages == 2
\* tasks ever submitted to the task-queue agent manager
MaxSubmitted == 3

\* ----------------------------------------------------------------- domains
AgentTypes == {"legal", "market"}
\* agent instances (BaseAgent objects) and the config.agent_id each carries;
\* i1 and i2 are two objects configured with the same agent_id
Instances == {"i1", "i2", "i3"}
AgentIdOf(i) == IF i = "i3" THEN "a2" ELSE "a1"
AgentIds == {AgentIdOf(i) : i \in Instances}
\* payloads an agent can return in AgentResponse.data
DataVals == {"d1", "d2"}
NoData == "none"
NoError == "none"

VARIABLES
    agents,          \* AgentManager.agents: agent_id -> registration
    agent_types,     \* AgentManager.agent_types: agent_type -> set of agent_id
    comm_agents,     \* CommunicationManager.agents: agent_id -> handler
    message_queues,  \* CommunicationManager.message_queues: agent_id -> queue
    workflows,       \* AgentManager.workflows: workflow_id -> Workflow
    next_uuid,       \* number of uuid4() values drawn so far
    exec,            \* execute_workflow calls: call -> frame (locals, position)
    reg,             \* register_agent/unregister_agent calls: call -> frame
    definition,      \* the workflow_definition argument (SpecCreate)
    running,         \* AgentManager.running
    utcnow,          \* number of datetime.utcnow() values read so far
    timestamps,      \* agent_id -> registered_at and last_heartbeat of its
                     \* registration (SpecService; the other specifications
                     \* do not observe the clock)
    query,           \* query_agent calls: call -> frame
    health_check_task, \* AgentManager._health_check_task: the monitor's frame
    comm_running,    \* CommunicationManager.running
    subscriptions,   \* CommunicationManager.subscriptions: event -> agent ids
    processors,      \* the tasks made of _process_agent_messages: task -> frame
    queue_info,      \* agent_id -> identity of its queue object and the
                     \* task in the _processor_task attribute of that object
    detached,        \* the items of the queue objects that left
                     \* message_queues while a task still holds them
    bus_stop,        \* the bus call that awaits the end of a processor task
    bus_result,      \* the last send_message or publish_event call: its
                     \* message and what it gave back
    tasks,           \* agents.AgentManager.tasks: task_id -> AgentTask
    task_queues,     \* agents.AgentManager.task_queues: agent_id -> queue
    agent_handlers,  \* agents.AgentManager.agent_handlers: the agent ids
                     \* that have a handler
    is_running,      \* agents.AgentManager.is_running
    workers,         \* the tasks made of _agent_worker: agent_id -> frame
    cancel_result    \* the last cancel_task call: its argument and what it
                     \* gave back

\* the state of the task-queue agent manager of Backend/agents, a manager of
\* its own that shares no object with the orchestration layer
taskVars == <<tasks, task_queues, agent_handlers, is_running, workers,
              cancel_result>>

\* the state of the routing and monitoring service (and, for the frame
\* conditions, of the task-queue manager, which no action of the
\* orchestration layer touches)
serviceVars ==
    <<running, utcnow, timestamps, query, health_check_task, taskVars>>

\* the state of the message bus beyond its endpoints and queues (the
\* specifications of the registry and of the workflow engine do not observe
\* it)
busVars == <<comm_running, subscriptions, processors, queue_info, detached,
             bus_stop, bus_result, taskVars>>

vars == <<agents, agent_types, comm_agents, message_queues, workflows,
          next_uuid, exec, reg, definition, serviceVars, busVars>>

Calls == 1..MaxCalls
RegCalls == 1..MaxRegCalls

\* -------------------------------------------------------- small utilities
Range(s) == {s[k] : k \in 1..Len(s)}

\* ------------------------------------------------------------ data model
\* WorkflowStep (agent_manager.py:36-48)
WorkflowStep(step_id, agent_type, dependencies) ==
    [step_id |-> step_id, agent_type |-> agent_type,
     dependencies |-> dependencies, status |-> "pending",
     result |-> NoData, error |-> NoError]

\* Workflow (agent_manager.py:51-62)
Workflow(workflow_id, steps) ==
    [workflow_id |-> workflow_id, steps |-> steps, status |-> "pending"]

\* AgentRegistration (agent_manager.py:21-33)
AgentRegistration(agent_id, agent_type, inst) ==
    [agent_id |-> agent_id, agent_type |-> agent_type,
     agent_instance |-> inst, status |-> "active"]

\* A declared dependency of a step definition: any Python value; is_int says
\* whether isinstance(value, int) holds, v is its value when it does.
DepVal(is_int, v) == [is_int |-> is_int, v |-> v]

StepStatus(w, sid) ==
    LET k == CHOOSE k \in 1..Len(w.steps) : w.steps[k].step_id = sid
    IN w.steps[k].status
StepIds(w) == {w.steps[k].step_id : k \in 1..Len(w.steps)}

\* --------------------------------------------------------- create_workflow
\* the same test with the upper limit off by one
ValidDepMutant(d, i) == d.is_int /\ 0 <= d.v /\ d.v <= i
\* agent_manager.py:283: the test a declared index must pass at position i
ValidDep(d, i) == d.is_int /\ 0 <= d.v /\ d.v < i

RECURSIVE ResolveDeps(_, _, _)
\* agent_manager.py:280-291: the ids of the valid declared indices, in order;
\* i is the 0-based position of the step, step_ids the ids drawn so far
ResolveDeps(deps, i, step_ids) ==
    IF deps = <<>> THEN <<>>
    ELSE LET rest == ResolveDeps(Tail(deps), i, step_ids)
         IN IF ValidDep(Head(deps), i)
            THEN <<step_ids[Head(deps).v + 1]>> \o rest
            ELSE rest

\* agent_manager.py:275-300: the steps built from a definition; the step at
\* 0-based position i gets the (first + i)-th uuid
BuildSteps(def, first) ==
    LET step_ids == [k \in 1..Len(def) |-> first + k - 1]
    IN [k \in 1..Len(def) |->
           WorkflowStep(step_ids[k], def[k].agent,
                        ResolveDeps(def[k].dependencies, k - 1, step_ids))]

\* agent_manager.py:258-319
CreateWorkflow(def) ==
    /\ next_uuid + Len(def) + 1 <= MaxUuid
    /\ LET steps == BuildSteps(def, next_uuid + 1)
           wid == next_uuid + Len(def) + 1
       IN workflows' = [k \in DOMAIN workflows \cup {wid} |->
                           IF k = wid THEN Workflow(wid, steps)
                           ELSE workflows[k]]
    /\ next_uuid' = next_uuid + Len(def) + 1
    /\ UNCHANGED <<agents, agent_types, comm_agents, message_queues, exec, reg>>

\* -------------------------------------------------------- execute_workflow
\* The frame of one execute_workflow call: its position (pc), the workflow it
\* runs, its locals completed_steps and results, the step and agent of the
\* query it awaits, whether the current scan has started a step, and how it
\* ended (error). The locals of a call that raised are gone with it.
IdleFrame ==
    [pc |-> "idle", wf |-> 0, cur |-> 0, agent |-> "none",
     completed_steps |-> {}, results |-> <<>>, progress |-> FALSE,
     error |-> NoError]

\* Python's dict item assignment d[k] = v
DictSet(d, k, v) ==
    [x \in DOMAIN d \cup {k} |-> IF x = k THEN v ELSE d[x]]

\* the same test without the status condition
EligibleAgainMutant(step, completed_steps) ==
    /\ step.step_id \notin completed_steps
    /\ \A k \in 1..Len(step.dependencies) :
          step.dependencies[k] \in completed_steps
\* the same test without the dependency condition
EligibleMutant(step, completed_steps) ==
    /\ step.step_id \notin completed_steps
    /\ step.status = "pending"
\* agent_manager.py:360-362: the step may be started by this call
Eligible(step, completed_steps) ==
    /\ step.step_id \notin completed_steps
    /\ step.status = "pending"
    /\ \A k \in 1..Len(step.dependencies) :
          step.dependencies[k] \in completed_steps

\* agent_manager.py:221: query_agent finds a member of the category
HasAgent(agent_type) ==
    agent_type \in DOMAIN agent_types /\ agent_types[agent_type] # {}

\* agent_manager.py:229-230: list(set)[0] is some member of the category;
\* pick chooses it for every populated category
Picks ==
    {p \in [DOMAIN agent_types -> AgentIds] :
        \A t \in DOMAIN agent_types :
            agent_types[t] # {} => p[t] \in agent_types[t]}

\* the same handler leaving the status of the workflow as it is
FailStepMutant(w, f, i, err) ==
    [w |-> [w EXCEPT !.steps[i].status = "failed", !.steps[i].error = err],
     f |-> [IdleFrame EXCEPT !.pc = "raised", !.wf = f.wf, !.cur = i,
                             !.error = err]]
\* agent_manager.py:385-389 and 419-429: the step is failed and the exception
\* leaves execute_workflow through the outer handler
FailStep(w, f, i, err) ==
    [w |-> [w EXCEPT !.steps[i].status = "failed", !.steps[i].error = err,
                     !.status = "failed"],
     f |-> [IdleFrame EXCEPT !.pc = "raised", !.wf = f.wf, !.cur = i,
                             !.error = err]]

\* agent_manager.py:402: the deadlock test after a scan
Deadlock(f, w) == Cardinality(f.completed_steps) = 0

RECURSIVE ScanFrom(_, _, _, _)
\* agent_manager.py:359-406: the for-loop from the step at position i up to
\* the next suspension: the await inside query_agent (pc "await"), the
\* sleep after a scan (pc "sleep"), or the raise that ends the call
ScanFrom(w, f, i, pick) ==
    IF i > Len(w.steps)
    THEN IF Deadlock(f, w)
         THEN [w |-> [w EXCEPT !.status = "failed"],
               f |-> [IdleFrame EXCEPT !.pc = "raised", !.wf = f.wf,
                                       !.error = "deadlock"]]
         ELSE [w |-> w, f |-> [f EXCEPT !.pc = "sleep", !.cur = 0]]
    ELSE IF Eligible(w.steps[i], f.completed_steps)
         THEN IF ~HasAgent(w.steps[i].agent_type)
              THEN FailStep(w, f, i, "no_agent")
              ELSE IF pick[w.steps[i].agent_type] \notin DOMAIN agents
                   THEN FailStep(w, f, i, "key_error")
                   ELSE [w |-> [w EXCEPT !.steps[i].status = "running"],
                         f |-> [f EXCEPT !.pc = "await", !.cur = i,
                                   !.progress = TRUE,
                                   !.agent = pick[w.steps[i].agent_type]]]
         ELSE ScanFrom(w, f, i + 1, pick)

\* the loop test that stops at the first completed step
LoopTestMutant(f, w) == Cardinality(f.completed_steps) = 0 /\ Len(w.steps) > 0
\* agent_manager.py:357: the loop test
LoopTest(f, w) == Cardinality(f.completed_steps) < Len(w.steps)

\* agent_manager.py:357-417: the while-loop test, then either a scan or the
\* normal return
WhileLoop(w, f, pick) ==
    IF LoopTest(f, w)
    THEN ScanFrom(w, [f EXCEPT !.progress = FALSE], 1, pick)
    ELSE [w |-> [w EXCEPT !.status = "completed"],
          f |-> [f EXCEPT !.pc = "returned", !.cur = 0]]

\* MaxCalls caps the number of execute_workflow calls ever made: frame c is
\* used by the c-th call
Finished(c) ==
    /\ exec[c].pc = "idle"
    /\ \A b \in Calls : b < c => exec[b].pc # "idle"

\* agent_manager.py:335-340: execute_workflow on an id that is not stored
ExecuteUnknown(c, wid) ==
    /\ Finished(c)
    /\ wid \notin DOMAIN workflows
    /\ exec' = [exec EXCEPT ![c] =
                   [IdleFrame EXCEPT !.pc = "raised", !.wf = wid,
                                     !.error = "not_found"]]
    /\ UNCHANGED <<agents, agent_types, comm_agents, message_queues,
                   workflows, next_uuid, reg>>

\* agent_manager.py:342-357: the call marks the workflow running and runs to
\* its first suspension
ExecuteWorkflow(c, wid, pick) ==
    /\ Finished(c)
    /\ wid \in DOMAIN workflows
    /\ LET w0 == [workflows[wid] EXCEPT !.status = "running"]
           r == WhileLoop(w0, [IdleFrame EXCEPT !.wf = wid], pick)
       IN /\ workflows' = [workflows EXCEPT ![wid] = r.w]
          /\ exec' = [exec EXCEPT ![c] = r.f]
    /\ UNCHANGED <<agents, agent_types, comm_agents, message_queues,
                   next_uuid, reg>>

\* the same bookkeeping filing the payload under the workflow's id
StepSucceedsForeignMutant(w, f, data) ==
    LET sid == w.steps[f.cur].step_id
    IN [w |-> [w EXCEPT !.steps[f.cur].status = "completed",
                        !.steps[f.cur].result = data],
        f |-> [f EXCEPT !.results = DictSet(f.results, w.workflow_id, data),
                        !.completed_steps = f.completed_steps \cup {sid}]]
\* the same bookkeeping storing every payload under the first step's id
StepSucceedsMutant(w, f, data) ==
    LET sid == w.steps[f.cur].step_id
    IN [w |-> [w EXCEPT !.steps[f.cur].status = "completed",
                        !.steps[f.cur].result = data],
        f |-> [f EXCEPT !.results = DictSet(f.results, w.steps[1].step_id, data),
                        !.completed_steps = f.completed_steps \cup {sid}]]
\* agent_manager.py:376-379 and 391-392: the awaited query returned
\* success=True with payload data
StepSucceeds(w, f, data) ==
    LET sid == w.steps[f.cur].step_id
    IN [w |-> [w EXCEPT !.steps[f.cur].status = "completed",
                        !.steps[f.cur].result = data],
        f |-> [f EXCEPT !.results = DictSet(f.results, sid, data),
                        !.completed_steps = f.completed_steps \cup {sid}]]

\* agent_manager.py:370-399: the query of the awaited step ends; outcome is
\* what query_agent gives back: a response with success=True ("success"),
\* a response with success=False ("failure"), or AgentTimeoutError
\* ("timeout"); the call then runs to its next suspension
AgentResponds(c, outcome, data, pick) ==
    /\ exec[c].pc = "await"
    /\ LET f == exec[c]
           w == workflows[f.wf]
           r == IF outcome = "success"
                THEN LET s == StepSucceeds(w, f, data)
                     IN ScanFrom(s.w, s.f, f.cur + 1, pick)
                ELSE FailStep(w, f, f.cur, outcome)
       IN /\ workflows' = [workflows EXCEPT ![f.wf] = r.w]
          /\ exec' = [exec EXCEPT ![c] = r.f]
    /\ UNCHANGED <<agents, agent_types, comm_agents, message_queues,
                   next_uuid, reg>>

\* agent_manager.py:406 then 357: asyncio.sleep(0.1) is over
SleepDone(c, pick) ==
    /\ exec[c].pc = "sleep"
    /\ LET f == exec[c]
           r == WhileLoop(workflows[f.wf], f, pick)
       IN /\ workflows' = [workflows EXCEPT ![f.wf] = r.w]
          /\ exec' = [exec EXCEPT ![c] = r.f]
    /\ UNCHANGED <<agents, agent_types, comm_agents, message_queues,
                   next_uuid, reg>>

\* ----------------------------------------------------------- agent registry
\* The frame of one register_agent or unregister_agent call, with the
\* number of times the call has invoked the agent's shutdown hook; of a call
\* that returned only the operation, the agent id and that number are kept.
IdleReg ==
    [op |-> "none", pc |-> "idle", inst |-> "none", agent_id |-> "none",
     agent_type |-> "none", shutdowns |-> 0, error |-> NoError]

Returned(f) ==
    [IdleReg EXCEPT !.op = f.op, !.agent_id = f.agent_id, !.pc = "returned",
                    !.shutdowns = f.shutdowns]

RegFinished(r) == reg[r].pc \in {"idle", "returned", "raised"}

\* a del that deletes nothing
DictDelMutant(d, k) == d
\* Python's del d[k]
DictDel(d, k) == [x \in DOMAIN d \ {k} |-> d[x]]

\* register_agent without the duplicate test
IsRegisteredMutant(agent_id) == FALSE
\* agent_manager.py:134: the duplicate test of register_agent
IsRegistered(agent_id) == agent_id \in DOMAIN agents

\* agent_manager.py:132-138: register_agent up to "await get_capabilities"
RegisterAgent(r, inst, agent_type) ==
    /\ RegFinished(r)
    /\ reg' = [reg EXCEPT ![r] =
          [IdleReg EXCEPT
              !.op = "register", !.inst = inst, !.agent_id = AgentIdOf(inst),
              !.agent_type = agent_type,
              !.pc = IF IsRegistered(AgentIdOf(inst)) THEN "raised" ELSE "caps",
              !.error = IF IsRegistered(AgentIdOf(inst))
                        THEN "duplicate" ELSE NoError]]
    /\ UNCHANGED <<agents, agent_types, comm_agents, message_queues,
                   workflows, next_uuid, exec>>

\* agent_manager.py:153-155
AddToType(types, agent_type, agent_id) ==
    DictSet(types, agent_type,
            (IF agent_type \in DOMAIN types THEN types[agent_type] ELSE {})
                \cup {agent_id})

\* agent_manager.py:141-167 with communication.py:152-161: get_capabilities
\* returned (ok) or raised; the registration is stored and indexed, then the
\* bus endpoint is opened unless the bus already has one for the id
CapabilitiesReturn(r, ok) ==
    /\ reg[r].pc = "caps"
    /\ LET f == reg[r] IN
       IF ~ok
       THEN /\ reg' = [reg EXCEPT ![r].pc = "raised", ![r].error = "caps_error"]
            /\ UNCHANGED <<agents, agent_types, comm_agents, message_queues>>
       ELSE /\ agents' = DictSet(agents, f.agent_id,
                           AgentRegistration(f.agent_id, f.agent_type, f.inst))
            /\ agent_types' = AddToType(agent_types, f.agent_type, f.agent_id)
            /\ IF f.agent_id \in DOMAIN comm_agents
               THEN /\ reg' = [reg EXCEPT ![r].pc = "raised",
                                          ![r].error = "comm_duplicate"]
                    /\ UNCHANGED <<comm_agents, message_queues>>
               ELSE /\ comm_agents' = DictSet(comm_agents, f.agent_id, f.inst)
                    /\ message_queues' = DictSet(message_queues, f.agent_id, <<>>)
                    /\ reg' = [reg EXCEPT ![r] = Returned(f)]
    /\ UNCHANGED <<workflows, next_uuid, exec>>

\* an unregistration that leaves the category index as it is
RemoveFromTypeMutant(types, agent_type, agent_id) == types
\* agent_manager.py:182-185
RemoveFromType(types, agent_type, agent_id) ==
    IF agent_type \notin DOMAIN types THEN types
    ELSE IF types[agent_type] \ {agent_id} = {}
         THEN DictDel(types, agent_type)
         ELSE [types EXCEPT ![agent_type] = @ \ {agent_id}]

\* agent_manager.py:176-188 with communication.py:170-174 and 322-329:
\* unregister_agent up to its first await: the processor task of the bus
\* endpoint (pc "stop"), or the agent's shutdown when the bus has no such
\* endpoint (pc "shutdown")
UnregisterAgent(r, agent_id) ==
    /\ RegFinished(r)
    /\ IF agent_id \notin DOMAIN agents
       THEN /\ reg' = [reg EXCEPT ![r] =
                  [IdleReg EXCEPT !.op = "unregister", !.agent_id = agent_id,
                                  !.pc = "returned"]]
            /\ UNCHANGED agent_types
       ELSE /\ agent_types' = RemoveFromType(agent_types,
                                  agents[agent_id].agent_type, agent_id)
            /\ reg' = [reg EXCEPT ![r] =
                  [IdleReg EXCEPT
                      !.op = "unregister", !.agent_id = agent_id,
                      !.inst = agents[agent_id].agent_instance,
                      !.agent_type = agents[agent_id].agent_type,
                      !.pc = IF agent_id \in DOMAIN comm_agents
                                /\ agent_id \in DOMAIN message_queues
                             THEN "stop" ELSE "shutdown",
                      !.shutdowns = IF agent_id \in DOMAIN comm_agents
                                       /\ agent_id \in DOMAIN message_queues
                                    THEN 0 ELSE 1]]
    /\ UNCHANGED <<agents, comm_agents, message_queues, workflows, next_uuid,
                   exec>>

\* communication.py:176-186 then agent_manager.py:191: the processor task
\* has ended; the endpoint and its queue are deleted, then the agent's
\* shutdown is awaited
StopReturn(r) ==
    /\ reg[r].pc = "stop"
    /\ IF reg[r].agent_id \in DOMAIN comm_agents
          /\ reg[r].agent_id \in DOMAIN message_queues
       THEN /\ comm_agents' = DictDel(comm_agents, reg[r].agent_id)
            /\ message_queues' = DictDel(message_queues, reg[r].agent_id)
            /\ reg' = [reg EXCEPT ![r].pc = "shutdown",
                                  ![r].shutdowns = @ + 1]
       ELSE /\ reg' = [reg EXCEPT ![r].pc = "raised", ![r].error = "key_error"]
            /\ UNCHANGED <<comm_agents, message_queues>>
    /\ UNCHANGED <<agents, agent_types, workflows, next_uuid, exec>>

\* agent_manager.py:191-196: shutdown returned (ok) or raised; the
\* registration is deleted
ShutdownReturn(r, ok) ==
    /\ reg[r].pc = "shutdown"
    /\ IF ~ok
       THEN /\ reg' = [reg EXCEPT ![r].pc = "raised",
                                  ![r].error = "shutdown_error"]
            /\ UNCHANGED agents
       ELSE IF reg[r].agent_id \in DOMAIN agents
            THEN /\ agents' = DictDel(agents, reg[r].agent_id)
                 /\ reg' = [reg EXCEPT ![r] = Returned(reg[r])]
            ELSE /\ reg' = [reg EXCEPT ![r].pc = "raised",
                                       ![r].error = "key_error"]
                 /\ UNCHANGED agents
    /\ UNCHANGED <<agent_types, comm_agents, message_queues, workflows,
                   next_uuid, exec>>

\* -------------------------------------------------------------- query_agent
Queries == 1..MaxQueries

\* the timeout argument: None, or a number of seconds
NoTimeout == <<>>
ExplicitTimeout == 5
\* base_agent.py:32: AgentConfig.timeout, in seconds
ConfigTimeout(inst) == 60

\* The frame of one query_agent call: its arguments, its locals (agent_ids,
\* the selected id, the registration object it holds, told apart by its
\* registered_at, the agent instance, the deadline), the instances whose
\* process_request it has invoked, and the response or the error it ended
\* with. The registration, the instance and the deadline are gone when the
\* call has ended.
IdleQuery ==
    [pc |-> "idle", agent_type |-> "none", agent_ids |-> {},
     agent |-> "none", registered_at |-> 0, inst |-> "none", deadline |-> 0,
     invoked |-> <<>>, response |-> "none", error |-> NoError]

Ended(f, pc, response, error) ==
    [f EXCEPT !.pc = pc, !.response = response, !.error = error,
              !.registered_at = 0, !.inst = "none", !.deadline = 0]

\* MaxQueries caps the number of query_agent calls ever made: frame q is used
\* by the q-th call
QueryNext(q) ==
    /\ query[q].pc = "idle"
    /\ \A b \in Queries : b < q => query[b].pc # "idle"

\* a selection that ignores the category
SelectedMutant(agent_type, pick) == CHOOSE a \in DOMAIN agents : TRUE
\* agent_manager.py:229-230: agent_ids[0], some member of the category
Selected(agent_type, pick) == pick[agent_type]

\* agent_manager.py:236-237
Deadline(timeout, inst) ==
    IF timeout = NoTimeout THEN ConfigTimeout(inst) ELSE timeout[1]

\* agent_manager.py:221-244: query_agent up to the await of process_request
QueryAgent(q, agent_type, timeout, pick) ==
    /\ QueryNext(q)
    /\ query' = [query EXCEPT ![q] =
          IF ~HasAgent(agent_type)
          THEN [IdleQuery EXCEPT !.pc = "raised", !.agent_type = agent_type,
                                 !.error = "no_agent"]
          ELSE LET a == Selected(agent_type, pick) IN
               IF a \notin DOMAIN agents
               THEN [IdleQuery EXCEPT
                        !.pc = "raised", !.agent_type = agent_type,
                        !.agent_ids = agent_types[agent_type], !.agent = a,
                        !.error = "key_error"]
               ELSE [IdleQuery EXCEPT
                        !.pc = "await", !.agent_type = agent_type,
                        !.agent_ids = agent_types[agent_type], !.agent = a,
                        !.registered_at = timestamps[a].registered_at,
                        !.inst = agents[a].agent_instance,
                        !.deadline = Deadline(timeout,
                                              agents[a].agent_instance),
                        !.invoked = <<agents[a].agent_instance>>]]
    /\ UNCHANGED <<agents, agent_types, comm_agents, message_queues,
                   workflows, next_uuid, exec, reg, definition, running,
                   utcnow, timestamps, health_check_task, busVars>>

\* whether the registration object a coroutine holds is the one stored
\* under the id
Holds(agent_id, registered_at) ==
    /\ agent_id \in DOMAIN agents
    /\ agent_id \in DOMAIN timestamps
    /\ timestamps[agent_id].registered_at = registered_at

\* a timeout handler that asks the same agent again
OnTimeoutMutant(f) == [f EXCEPT !.invoked = Append(@, f.inst)]
\* agent_manager.py:251-256
OnTimeout(f) == Ended(f, "raised", "none", "timeout")

\* what wait_for can give back: a response with success=True or
\* success=False (base_agent.py:124-159), asyncio.TimeoutError, or an
\* exception of an agent that overrides process_request
Awaited == {"success", "failure", "TimeoutError", "Exception"}

\* agent_manager.py:241-256: the await of process_request ends
QueryReturn(q, awaited) ==
    /\ query[q].pc = "await"
    /\ LET f == query[q] IN
       IF awaited \in {"success", "failure"}
       THEN /\ utcnow < MaxClock
            /\ utcnow' = utcnow + 1
            /\ timestamps' =
                  IF Holds(f.agent, f.registered_at)
                  THEN [timestamps EXCEPT
                           ![f.agent].last_heartbeat = utcnow + 1]
                  ELSE timestamps
            /\ query' = [query EXCEPT ![q] =
                            Ended(f, "returned", awaited, NoError)]
       ELSE /\ query' = [query EXCEPT ![q] =
                  IF awaited = "TimeoutError"
                  THEN OnTimeout(f)
                  ELSE Ended(f, "raised", "none", "agent_error")]
            /\ UNCHANGED <<utcnow, timestamps>>
    /\ UNCHANGED <<agents, agent_types, comm_agents, message_queues,
                   workflows, next_uuid, exec, reg, definition, running,
                   health_check_task, busVars>>

\* agent_manager.py:431-445: get_agent_status
GetAgentStatus(agent_id) ==
    IF agent_id \notin DOMAIN agents
    THEN "absent"
    ELSE [agent_id |-> agent_id,
          agent_type |-> agents[agent_id].agent_type,
          status |-> agents[agent_id].status]

\* ----------------------------------------------------------- health monitor
\* The frame of _health_check_loop: its position, the dict iterator of the
\* current cycle (the registrations it was made over and the ones it has
\* given, each told apart by its registered_at), and the registration whose
\* health_check is awaited.
IdleMonitor ==
    [pc |-> "off", keys |-> <<>>, checked |-> <<>>, agent |-> "none",
     registered_at |-> 0]

\* the registration objects stored now
Stored == [a \in DOMAIN agents |-> timestamps[a].registered_at]

\* agent_manager.py:467: what next() of the iterator over self.agents.items()
\* can give: a RuntimeError when the dict has changed its size, every
\* registration once when the dict is as it was, and any registration not
\* yet checked, or the end, when entries were replaced in between
NextItems(f) ==
    IF Cardinality(DOMAIN agents) # Cardinality(DOMAIN f.keys)
    THEN {"RuntimeError"}
    ELSE IF Stored = f.keys
         THEN IF DOMAIN f.keys \ DOMAIN f.checked = {}
              THEN {"StopIteration"}
              ELSE DOMAIN f.keys \ DOMAIN f.checked
         ELSE {a \in DOMAIN agents :
                  \/ a \notin DOMAIN f.checked
                  \/ f.checked[a] # Stored[a]}
              \cup {"StopIteration"}

\* agent_manager.py:467-470 and 493-499: the loop moves to the next
\* registration and awaits its health_check, or sleeps 30 at the end of the
\* cycle, or sleeps 5 after the error of the loop
Advance(f, item) ==
    IF item = "RuntimeError"
    THEN [IdleMonitor EXCEPT !.pc = "retry"]
    ELSE IF item = "StopIteration"
         THEN [IdleMonitor EXCEPT !.pc = "sleep"]
         ELSE [f EXCEPT !.pc = "check", !.agent = item,
                        !.registered_at = Stored[item]]

\* agent_manager.py:86-97: start() sets running and creates the task of the
\* monitor; start() is called once
Start ==
    /\ health_check_task.pc = "off"
    /\ running' = TRUE
    /\ health_check_task' = [IdleMonitor EXCEPT !.pc = "created"]
    /\ UNCHANGED <<agents, agent_types, comm_agents, message_queues,
                   workflows, next_uuid, exec, reg, definition, utcnow,
                   timestamps, query, busVars>>

\* agent_manager.py:465-470: the task runs for the first time or wakes from
\* its sleep, tests running and begins a cycle
BeginCycle(item) ==
    /\ health_check_task.pc \in {"created", "sleep", "retry"}
    /\ IF running
       THEN LET f == [health_check_task EXCEPT !.keys = Stored,
                                               !.checked = <<>>]
            IN /\ item \in NextItems(f)
               /\ health_check_task' = Advance(f, item)
       ELSE health_check_task' = [IdleMonitor EXCEPT !.pc = "done"]
    /\ UNCHANGED <<agents, agent_types, comm_agents, message_queues,
                   workflows, next_uuid, exec, reg, definition, running,
                   utcnow, timestamps, query, busVars>>

\* what health_check gives back: a status "healthy" or another one
\* (base_agent.py:228), or an exception
HealthOutcomes == {"healthy", "unhealthy", "Exception"}

\* a monitor that retires an unhealthy agent
StatusAfterMutant(outcome) ==
    IF outcome = "healthy" THEN "active" ELSE "inactive"
\* agent_manager.py:473-485
StatusAfter(outcome) == IF outcome = "healthy" THEN "active" ELSE "error"

\* a monitor that refreshes the heartbeat after every check
RefreshesMutant(outcome) == TRUE
\* agent_manager.py:473-475
Refreshes(outcome) == outcome = "healthy"

\* a monitor whose cycle ends at the first exception of a health check
AfterCheckMutant(f, outcome, item) ==
    IF outcome = "Exception" THEN Advance(f, "RuntimeError")
    ELSE Advance(f, item)
\* agent_manager.py:467-491: after the check of one registration the
\* for-loop goes on
AfterCheck(f, outcome, item) == Advance(f, item)

\* agent_manager.py:470-493: the awaited health_check ends; the registration
\* object the loop holds is updated and the loop moves on
HealthCheckReturn(outcome, item) ==
    /\ health_check_task.pc = "check"
    /\ LET f == health_check_task
           a == f.agent
           g == [f EXCEPT !.checked = DictSet(f.checked, a, f.registered_at)]
       IN /\ Refreshes(outcome) => utcnow < MaxClock
          /\ utcnow' = IF Refreshes(outcome) THEN utcnow + 1 ELSE utcnow
          /\ agents' = IF Holds(a, f.registered_at)
                       THEN [agents EXCEPT ![a].status = StatusAfter(outcome)]
                       ELSE agents
          /\ timestamps' =
                IF Holds(a, f.registered_at) /\ Refreshes(outcome)
                THEN [timestamps EXCEPT ![a].last_heartbeat = utcnow + 1]
                ELSE timestamps
          /\ item \in NextItems(g)
          /\ health_check_task' = AfterCheck(g, outcome, item)
    /\ UNCHANGED <<agent_types, comm_agents, message_queues, workflows,
                   next_uuid, exec, reg, definition, running, query,
                   busVars>>

\* agent_manager.py:77-84: the service after construction
ServiceInit ==
    /\ running = FALSE
    /\ utcnow = 0
    /\ timestamps = <<>>
    /\ query = [q \in Queries |-> IdleQuery]
    /\ health_check_task = IdleMonitor

\* --------------------------------------------------------------- message bus
\* the state of AgentManager, which the bus does not touch
managerVars ==
    <<agents, agent_types, workflows, exec, reg, definition, serviceVars>>

\* Message.recipient_id of a broadcast (None), and the empty string, which
\* the test at communication.py:199 takes for no recipient as well
NoRecipient == "None"
EmptyId == ""

\* Message (communication.py:70-81); message_id is the uuid4() drawn when the
\* message is constructed
Message(message_id, sender_id, recipient_id, message_type, priority) ==
    [message_id |-> message_id, sender_id |-> sender_id,
     recipient_id |-> recipient_id, message_type |-> message_type,
     priority |-> priority]

\* communication.py:199: the truth value of message.recipient_id
HasRecipient(message) == message.recipient_id \notin {NoRecipient, EmptyId}

\* communication.py:209, 220, 262: asyncio.Queue.put on a queue without
\* maxsize appends the item and does not suspend
Put(items, item) == Append(items, item)

\* a copy whose recipient is left as it was
BroadcastCopyMutant(message, agent_id) == message
\* communication.py:218-219 and 260-261: message.copy() with recipient_id
\* set to the endpoint
BroadcastCopy(message, agent_id) ==
    [message EXCEPT !.recipient_id = agent_id]

\* communication.py:201: the recipient is a registered endpoint
KnownRecipient(message) == message.recipient_id \in DOMAIN comm_agents

\* communication.py:198-236: what send_message returns
SendResult(message) ==
    IF HasRecipient(message)
    THEN KnownRecipient(message)
            /\ message.recipient_id \in DOMAIN message_queues
    ELSE DOMAIN comm_agents \subseteq DOMAIN message_queues

\* a send that puts the message on every queue
DeliveredMutant(message) ==
    [a \in DOMAIN message_queues |-> Put(message_queues[a], message)]
\* communication.py:198-236: the queues after send_message(message)
Delivered(message) ==
    IF HasRecipient(message)
    THEN IF KnownRecipient(message)
            /\ message.recipient_id \in DOMAIN message_queues
         THEN [message_queues EXCEPT
                  ![message.recipient_id] = Put(@, message)]
         ELSE message_queues
    ELSE [a \in DOMAIN message_queues |->
             IF a \in DOMAIN comm_agents
             THEN Put(message_queues[a], BroadcastCopy(message, a))
             ELSE message_queues[a]]

\* the record of a send_message or publish_event call that has ended: the
\* operation, the caller's message object after the call, and the value
\* returned or the exception
BusResult(op, message, returned) ==
    [op |-> op, message |-> message, returned |-> returned]
NoMessage == [message_id |-> 0, sender_id |-> "none", recipient_id |-> "none",
              message_type |-> "none", priority |-> "none"]
\* Python's str() of a truth value
PyBool(b) == IF b THEN "True" ELSE "False"

\* communication.py:188-236: a caller constructs a message and awaits
\* send_message, which runs without suspending
SendMessage(sender_id, recipient_id, priority) ==
    /\ next_uuid < MaxMessages
    /\ LET message == Message(next_uuid + 1, sender_id, recipient_id,
                              "task_request", priority)
       IN /\ message_queues' = Delivered(message)
          /\ bus_result' = BusResult("send_message", message,
                                     PyBool(SendResult(message)))
    /\ next_uuid' = next_uuid + 1
    /\ UNCHANGED <<agents, agent_types, comm_agents, workflows, exec, reg,
                   definition, serviceVars, comm_running, subscriptions,
                   processors, queue_info, detached, bus_stop>>

\* the orders in which a set can be iterated
Orders(S) ==
    {o \in [1..Cardinality(S) -> S] :
        \A i, j \in 1..Cardinality(S) : o[i] = o[j] => i = j}

RECURSIVE PublishTo(_, _, _)
\* communication.py:258-262: the loop over the subscribers in the order of
\* the set's iteration; the lookup of a queue that does not exist raises
\* KeyError and ends the loop
PublishTo(queues, order, message) ==
    IF order = <<>> THEN [queues |-> queues, raised |-> FALSE]
    ELSE LET a == Head(order) IN
         IF a = message.sender_id
         THEN PublishTo(queues, Tail(order), message)
         ELSE IF a \notin DOMAIN queues
              THEN [queues |-> queues, raised |-> TRUE]
              ELSE PublishTo([queues EXCEPT
                                 ![a] = Put(@, BroadcastCopy(message, a))],
                             Tail(order), message)

\* communication.py:238-268: publish_event, which runs without suspending
PublishEvent(event_type, sender_id, order) ==
    IF event_type \notin DOMAIN subscriptions
    THEN /\ order = <<>>
         /\ bus_result' = BusResult("publish_event", NoMessage, "None")
         /\ UNCHANGED <<message_queues, next_uuid>>
         /\ UNCHANGED <<agents, agent_types, comm_agents, workflows, exec,
                        reg, definition, serviceVars, comm_running,
                        subscriptions, processors, queue_info, detached,
                        bus_stop>>
    ELSE /\ next_uuid < MaxMessages
         /\ order \in Orders(subscriptions[event_type])
         /\ LET message == Message(next_uuid + 1, sender_id, NoRecipient,
                                   "status_update", "normal")
                r == PublishTo(message_queues, order, message)
            IN /\ message_queues' = r.queues
               /\ bus_result' = BusResult("publish_event", message,
                                   IF r.raised THEN "KeyError" ELSE "None")
         /\ next_uuid' = next_uuid + 1
         /\ UNCHANGED <<agents, agent_types, comm_agents, workflows, exec,
                        reg, definition, serviceVars, comm_running,
                        subscriptions, processors, queue_info, detached,
                        bus_stop>>

\* communication.py:278-281
Subscribed(subs, agent_id, event_type) ==
    DictSet(subs, event_type,
            (IF event_type \in DOMAIN subs THEN subs[event_type] ELSE {})
                \cup {agent_id})

\* a removal that keeps the entry of an event without subscribers
UnsubscribedMutant(subs, agent_id, event_type) ==
    IF event_type \notin DOMAIN subs THEN subs
    ELSE [subs EXCEPT ![event_type] = @ \ {agent_id}]
\* communication.py:296-301 and, for each event, 182-184
Unsubscribed(subs, agent_id, event_type) ==
    IF event_type \notin DOMAIN subs THEN subs
    ELSE IF subs[event_type] \ {agent_id} = {}
         THEN DictDel(subs, event_type)
         ELSE [subs EXCEPT ![event_type] = @ \ {agent_id}]

\* communication.py:270-286
SubscribeToEvent(agent_id, event_type) ==
    /\ subscriptions' = Subscribed(subscriptions, agent_id, event_type)
    /\ UNCHANGED <<managerVars, comm_agents, message_queues, next_uuid,
                   comm_running, processors, queue_info, detached, bus_stop,
                   bus_result>>

\* communication.py:288-307
UnsubscribeFromEvent(agent_id, event_type) ==
    /\ subscriptions' = Unsubscribed(subscriptions, agent_id, event_type)
    /\ UNCHANGED <<managerVars, comm_agents, message_queues, next_uuid,
                   comm_running, processors, queue_info, detached, bus_stop,
                   bus_result>>

RECURSIVE WithoutAgent(_, _, _)
\* communication.py:181-184: the agent leaves the subscribers of every event
\* in events
WithoutAgent(subs, events, agent_id) ==
    IF events = {} THEN subs
    ELSE LET e == CHOOSE e \in events : TRUE
         IN WithoutAgent(Unsubscribed(subs, agent_id, e), events \ {e},
                         agent_id)

\* ------------------------------------------------- message processor tasks
Tasks == 1..MaxTasks

\* The frame of one task of _process_agent_messages: its position ("none"
\* for a task not created yet, "created" before its first run, "get" in
\* wait_for(queue.get()), "handle" in handler.handle_message, "done"), its
\* argument, its locals handler, queue (the identity of the queue object)
\* and message, whether cancel() was called on it, and the number of
\* "Error processing message" records it has logged while it runs. The
\* locals of a task that has ended are gone.
IdleTask ==
    [pc |-> "none", agent_id |-> "none", handler |-> "none", queue |-> 0,
     message |-> NoMessage, cancelled |-> FALSE, errors |-> 0]
DoneTask == [IdleTask EXCEPT !.pc = "done"]

\* MaxTasks caps the tasks ever created: frame p is used by the p-th task
FreeTasks == {p \in Tasks : processors[p].pc = "none"}
FirstFree(procs) ==
    CHOOSE p \in Tasks :
        procs[p].pc = "none" /\ \A b \in Tasks : b < p => procs[b].pc # "none"

\* some enumeration of a set, for the loops over the keys of a dict
Enum(S) == CHOOSE o \in Orders(S) : TRUE

\* the tasks that hold the queue object and may still take items from it
Holders(procs, qid) ==
    {p \in Tasks : procs[p].pc \in {"get", "handle"} /\ procs[p].queue = qid}

\* the queue objects no task holds any more are gone
Collected(det, procs) ==
    [q \in {q \in DOMAIN det : Holders(procs, q) # {}} |-> det[q]]

\* the endpoint whose queue is the object qid, if the object is still in
\* message_queues
Attached(qid) == {a \in DOMAIN queue_info : queue_info[a].id = qid}

\* the items of the queue object qid
QueueItems(qid) ==
    IF Attached(qid) # {}
    THEN message_queues[CHOOSE a \in Attached(qid) : TRUE]
    ELSE IF qid \in DOMAIN detached THEN detached[qid] ELSE <<>>

\* a start that creates no task
StartedMutant(procs, info, agent_id) ==
    [processors |-> procs, queue_info |-> info]
\* communication.py:309-318: _start_agent_message_processor creates a task
\* and stores it in the _processor_task attribute of the agent's queue
Started(procs, info, agent_id) ==
    LET p == FirstFree(procs)
    IN [processors |-> [procs EXCEPT ![p] =
                           [IdleTask EXCEPT !.pc = "created",
                                            !.agent_id = agent_id]],
        queue_info |-> [info EXCEPT ![agent_id].task = p]]

RECURSIVE StartAll(_, _, _)
\* communication.py:132-133: the loop of start() over the endpoints
StartAll(procs, info, keys) ==
    IF keys = <<>> THEN [processors |-> procs, queue_info |-> info]
    ELSE LET r == Started(procs, info, Head(keys))
         IN StartAll(r.processors, r.queue_info, Tail(keys))

\* the frame of the bus call that awaits the end of a task: unregister_agent
\* of one endpoint, or stop() with the endpoints it has still to stop
IdleStop ==
    [pc |-> "idle", op |-> "none", agent_id |-> "none", task |-> 0,
     rest |-> <<>>]

\* communication.py:144-161: register_agent of the bus; the new endpoint gets
\* a new queue object, named after the first task made for it
BusRegisterAgent(agent_id, handler) ==
    /\ bus_stop.pc = "idle"
    /\ IF agent_id \in DOMAIN comm_agents
       THEN UNCHANGED <<comm_agents, message_queues, processors, queue_info>>
       ELSE /\ FreeTasks # {}
            /\ comm_agents' = DictSet(comm_agents, agent_id, handler)
            /\ message_queues' = DictSet(message_queues, agent_id, <<>>)
            /\ LET p == FirstFree(processors)
                   r == Started(processors,
                                DictSet(queue_info, agent_id,
                                        [id |-> p, task |-> p]),
                                agent_id)
               IN /\ processors' = r.processors
                  /\ queue_info' = r.queue_info
    /\ UNCHANGED <<managerVars, next_uuid, comm_running, subscriptions,
                   detached, bus_stop, bus_result>>

\* communication.py:126-133: start() of the bus
BusStart ==
    /\ bus_stop.pc = "idle"
    /\ Cardinality(FreeTasks) >= Cardinality(DOMAIN comm_agents)
    /\ comm_running' = TRUE
    /\ LET r == StartAll(processors, queue_info, Enum(DOMAIN comm_agents))
       IN /\ processors' = r.processors
          /\ queue_info' = r.queue_info
    /\ UNCHANGED <<managerVars, comm_agents, message_queues, next_uuid,
                   subscriptions, detached, bus_stop, bus_result>>

\* communication.py:176-186: the endpoint, its queue and its subscriptions
\* are deleted; the queue object lives on while a task holds it
Removed(agent_id, procs) ==
    LET qid == queue_info[agent_id].id
    IN /\ comm_agents' = DictDel(comm_agents, agent_id)
       /\ message_queues' = DictDel(message_queues, agent_id)
       /\ queue_info' = DictDel(queue_info, agent_id)
       /\ detached' =
             IF Holders(procs, qid) # {}
             THEN DictSet(detached, qid, message_queues[agent_id])
             ELSE detached
       /\ subscriptions' =
             WithoutAgent(subscriptions, DOMAIN subscriptions, agent_id)

\* communication.py:320-331: whether _stop_agent_message_processor has a
\* task to wait for: the queue exists and its task has not ended
Stoppable(procs, agent_id) ==
    /\ agent_id \in DOMAIN message_queues
    /\ agent_id \in DOMAIN queue_info
    /\ procs[queue_info[agent_id].task].pc # "done"

\* communication.py:327-329: cancel() on the task of the queue, then the
\* await of the task
Cancelling(procs, op, agent_id, rest) ==
    LET t == queue_info[agent_id].task
    IN [processors |-> [procs EXCEPT ![t].cancelled = TRUE],
        frame |-> [pc |-> "await", op |-> op, agent_id |-> agent_id,
                   task |-> t, rest |-> rest]]

\* communication.py:163-186: unregister_agent of the bus up to the await of
\* the processor task, or to its end when that task has ended already
BusUnregisterAgent(agent_id) ==
    /\ bus_stop.pc = "idle"
    /\ IF agent_id \notin DOMAIN comm_agents
       THEN UNCHANGED <<comm_agents, message_queues, processors, queue_info,
                        detached, subscriptions, bus_stop>>
       ELSE IF Stoppable(processors, agent_id)
            THEN LET r == Cancelling(processors, "unregister_agent",
                                     agent_id, <<>>)
                 IN /\ processors' = r.processors
                    /\ bus_stop' = r.frame
                    /\ UNCHANGED <<comm_agents, message_queues, queue_info,
                                   detached, subscriptions>>
            ELSE /\ Removed(agent_id, processors)
                 /\ UNCHANGED <<processors, bus_stop>>
    /\ UNCHANGED <<managerVars, next_uuid, comm_running, bus_result>>

RECURSIVE StopFrom(_, _)
\* communication.py:141-142: the loop of stop() up to the next task it has
\* to wait for
StopFrom(procs, keys) ==
    IF keys = <<>> THEN [processors |-> procs, frame |-> IdleStop]
    ELSE IF Stoppable(procs, Head(keys))
         THEN Cancelling(procs, "stop", Head(keys), Tail(keys))
         ELSE StopFrom(procs, Tail(keys))

\* communication.py:135-142: stop() of the bus up to its first await
BusStop ==
    /\ bus_stop.pc = "idle"
    /\ comm_running' = FALSE
    /\ LET r == StopFrom(processors, Enum(DOMAIN comm_agents))
       IN /\ processors' = r.processors
          /\ bus_stop' = r.frame
    /\ UNCHANGED <<managerVars, comm_agents, message_queues, next_uuid,
                   subscriptions, queue_info, detached, bus_result>>

\* communication.py:329-333, then 176-186 or 141-142: the awaited task has
\* ended and the call goes on
BusStopped ==
    /\ bus_stop.pc = "await"
    /\ processors[bus_stop.task].pc = "done"
    /\ IF bus_stop.op = "unregister_agent"
       THEN /\ IF bus_stop.agent_id \in DOMAIN comm_agents
               THEN Removed(bus_stop.agent_id, processors)
               ELSE UNCHANGED <<comm_agents, message_queues, queue_info,
                                detached, subscriptions>>
            /\ bus_stop' = IdleStop
            /\ UNCHANGED processors
       ELSE /\ LET r == StopFrom(processors, bus_stop.rest)
               IN /\ processors' = r.processors
                  /\ bus_stop' = r.frame
            /\ UNCHANGED <<comm_agents, message_queues, queue_info,
                           detached, subscriptions>>
    /\ UNCHANGED <<managerVars, next_uuid, comm_running, bus_result>>

\* communication.py:343: the loop test of the task
Loops == comm_running

\* communication.py:335-347: the first run of a task: it returns when the
\* agent has no endpoint, takes the handler and the queue of the endpoint
\* and enters its loop
ProcessorRuns(p) ==
    /\ processors[p].pc = "created"
    /\ ~processors[p].cancelled
    /\ LET a == processors[p].agent_id IN
       processors' = [processors EXCEPT ![p] =
          IF a \notin DOMAIN comm_agents \/ ~Loops
          THEN DoneTask
          ELSE [@ EXCEPT !.pc = "get", !.handler = comm_agents[a],
                         !.queue = queue_info[a].id]]
    /\ UNCHANGED <<managerVars, comm_agents, message_queues, next_uuid,
                   comm_running, subscriptions, queue_info, detached,
                   bus_stop, bus_result>>

\* a consumer that takes the newest item
TakenMutant(items) == [item |-> items[Len(items)],
                       rest |-> SubSeq(items, 1, Len(items) - 1)]
\* asyncio.Queue.get: the item at the head leaves the queue
Taken(items) == [item |-> Head(items), rest |-> Tail(items)]

\* communication.py:347 and 353: queue.get() gives an item and the handler
\* is invoked with it
ProcessorGets(p) ==
    /\ processors[p].pc = "get"
    /\ ~processors[p].cancelled
    /\ LET qid == processors[p].queue
           items == QueueItems(qid)
       IN /\ items # <<>>
          /\ processors' = [processors EXCEPT
                ![p].pc = "handle", ![p].message = Taken(items).item]
          /\ IF Attached(qid) # {}
             THEN /\ message_queues' =
                        [message_queues EXCEPT
                            ![CHOOSE a \in Attached(qid) : TRUE] =
                                Taken(items).rest]
                  /\ UNCHANGED detached
             ELSE /\ detached' = [detached EXCEPT ![qid] = Taken(items).rest]
                  /\ UNCHANGED message_queues
    /\ UNCHANGED <<managerVars, comm_agents, next_uuid, comm_running,
                   subscriptions, queue_info, bus_stop, bus_result>>

\* communication.py:343-349: wait_for times out on the empty queue and the
\* loop test finds running false: the task ends
ProcessorTimesOut(p) ==
    /\ processors[p].pc = "get"
    /\ ~processors[p].cancelled
    /\ QueueItems(processors[p].queue) = <<>>
    /\ ~Loops
    /\ processors' = [processors EXCEPT ![p] = DoneTask]
    /\ detached' = Collected(detached, processors')
    /\ UNCHANGED <<managerVars, comm_agents, message_queues, next_uuid,
                   comm_running, subscriptions, queue_info, bus_stop,
                   bus_result>>

\* what handle_message gives back: None, a response message (its recipient
\* and priority), or an exception
NoResponse == [kind |-> "None"]
Raises == [kind |-> "Exception"]
Response(recipient_id, priority) ==
    [kind |-> "response", recipient_id |-> recipient_id,
     priority |-> priority]

\* a loop that ends when the handler raises
AfterHandlingMutant(f, result) ==
    IF Loops /\ result.kind # "Exception"
    THEN [f EXCEPT !.pc = "get", !.message = NoMessage]
    ELSE DoneTask
\* communication.py:356-365 then 343: the exception of the handler is
\* logged, task_done() is called and the loop test is made
AfterHandling(f, result) ==
    IF Loops
    THEN [f EXCEPT !.pc = "get", !.message = NoMessage,
                   !.errors = IF result.kind = "Exception" THEN @ + 1 ELSE @]
    ELSE DoneTask

\* a consumer that submits the response twice
ResubmittedMutant(response) ==
    IF HasRecipient(response) /\ SendResult(response)
    THEN [message_queues EXCEPT
             ![response.recipient_id] = Put(Put(@, response), response)]
    ELSE Delivered(response)
\* communication.py:354-355: the response goes through send_message
Resubmitted(response) == Delivered(response)

\* communication.py:352-365: handle_message ends; a response is sent, and
\* the task goes back to its loop test
HandlerReturns(p, result) ==
    /\ processors[p].pc = "handle"
    /\ ~processors[p].cancelled
    /\ IF result.kind = "response"
       THEN /\ next_uuid < MaxMessages
            /\ next_uuid' = next_uuid + 1
            /\ LET response == Message(next_uuid + 1, processors[p].agent_id,
                                       result.recipient_id, "task_response",
                                       result.priority)
               IN /\ message_queues' = Resubmitted(response)
                  /\ bus_result' = BusResult("send_message", response,
                                             PyBool(SendResult(response)))
       ELSE UNCHANGED <<next_uuid, message_queues, bus_result>>
    /\ processors' = [processors EXCEPT ![p] = AfterHandling(@, result)]
    /\ detached' = Collected(detached, processors')
    /\ UNCHANGED <<managerVars, comm_agents, comm_running, subscriptions,
                   queue_info, bus_stop>>

\* communication.py:367-368: the cancelled task gets CancelledError at its
\* await (or never starts) and ends
ProcessorCancelled(p) ==
    /\ processors[p].pc \in {"created", "get", "handle"}
    /\ processors[p].cancelled
    /\ processors' = [processors EXCEPT ![p] = DoneTask]
    /\ detached' = Collected(detached, processors')
    /\ UNCHANGED <<managerVars, comm_agents, message_queues, next_uuid,
                   comm_running, subscriptions, queue_info, bus_stop,
                   bus_result>>

\* communication.py:118-124: the bus after construction
BusInit ==
    /\ comm_running = FALSE
    /\ subscriptions = <<>>
    /\ processors = [p \in Tasks |-> IdleTask]
    /\ queue_info = <<>>
    /\ detached = <<>>
    /\ bus_stop = IdleStop
    /\ bus_result = BusResult("none", NoMessage, "None")

\* ------------------------------------------------------------------ inputs
\* The declared dependency lists of the workflow specification: the sorted
\* lists of positions of the same definition (positions at or after the
\* step's own are the cyclic and forward references)
RECURSIVE SortedSeq(_)
SortedSeq(S) ==
    IF S = {} THEN <<>>
    ELSE LET m == CHOOSE x \in S : \A y \in S : x <= y
         IN <<DepVal(TRUE, m)>> \o SortedSeq(S \ {m})

\* agent types the workflow specification's steps address
WfTypes == {"legal"}
\* agent instances the workflow specification registers
WfInstances == {"i1"}
\* the workflow specification makes its registry calls one after the other
WfRegCalls == {1}

WfStepDefs(n) ==
    {[agent |-> t, dependencies |-> SortedSeq(S)] :
        t \in WfTypes, S \in SUBSET (0..(n - 1))}

\* numbers of steps of the definitions the workflow specification submits
WfLengths == {0, 1, 2, 3}

WfDefinitions ==
    UNION {[1..n -> WfStepDefs(n)] : n \in WfLengths}

\* workflow ids a caller may pass: the stored ones and one unknown id
WorkflowIds == DOMAIN workflows \cup {0}

Outcomes == {"success", "failure", "timeout"}

\* whether the agent's get_capabilities and shutdown hooks return (TRUE) or
\* raise (FALSE); the agents of the workflow specification's runs return
HookOutcomes == {TRUE}

\* ------------------------------------------- the task-queue agent manager
\* agents/agent_manager.py:74-120: two of the default agents stand for the
\* five; each has a queue of its own
QueueAgents == {"eden", "orion"}

TaskIds == 1..MaxSubmitted

\* agents/agent_manager.py:38: the statuses cancel_task leaves alone
FinalStatuses == {"completed", "failed", "cancelled"}

\* a worker that holds no task (task ids start at 1)
IdleWorker == [pc |-> "off", task |-> 0]
NoCancel == [task_id |-> 0, returned |-> "none"]

\* agents/agent_manager.py:62-72: the manager after construction
TaskInit ==
    /\ tasks = <<>>
    /\ task_queues = [a \in QueueAgents |-> <<>>]
    /\ agent_handlers = {}
    /\ is_running = FALSE
    /\ workers = [a \in QueueAgents |-> IdleWorker]
    /\ cancel_result = NoCancel

\* AgentTask.status of a stored task set to s
WithStatus(id, s) == [tasks EXCEPT ![id].status = s]

\* agents/agent_manager.py:122-143: start() sets the flag and makes a worker
\* for every agent (the default agents are all active)
StartManager ==
    /\ ~is_running
    /\ is_running' = TRUE
    /\ workers' = [a \in QueueAgents |-> [pc |-> "get", task |-> 0]]
    /\ UNCHANGED <<tasks, task_queues, agent_handlers, cancel_result>>

\* agents/agent_manager.py:145-166: stop() clears the flag and cancels the
\* background tasks, the workers among them; a task a worker was processing
\* keeps the status it had
StopManager ==
    /\ is_running
    /\ is_running' = FALSE
    /\ workers' = [a \in QueueAgents |-> IdleWorker]
    /\ UNCHANGED <<tasks, task_queues, agent_handlers, cancel_result>>

\* agents/agent_manager.py:485-488
RegisterHandler(a) ==
    /\ agent_handlers' = agent_handlers \cup {a}
    /\ UNCHANGED <<tasks, task_queues, is_running, workers, cancel_result>>

\* agents/agent_manager.py:224-258: the new task is pending, stored and put
\* on the queue of its agent (the queue is unbounded, put does not wait)
SubmitTask(a) ==
    LET id == Cardinality(DOMAIN tasks) + 1
        task == [agent_id |-> a, status |-> "pending", runs |-> 0]
    IN /\ id \in TaskIds
       /\ tasks' = [t \in DOMAIN tasks \cup {id} |->
                        IF t = id THEN task ELSE tasks[t]]
       /\ task_queues' = [task_queues EXCEPT ![a] = Append(@, id)]
       /\ UNCHANGED <<agent_handlers, is_running, workers, cancel_result>>

\* agents/agent_manager.py:264-285
CancelTask(id) ==
    /\ IF id \notin DOMAIN tasks
       THEN /\ cancel_result' = [task_id |-> id, returned |-> "False"]
            /\ UNCHANGED tasks
       ELSE IF tasks[id].status \in FinalStatuses
       THEN /\ cancel_result' = [task_id |-> id, returned |-> "False"]
            /\ UNCHANGED tasks
       ELSE /\ tasks' = WithStatus(id, "cancelled")
            /\ cancel_result' = [task_id |-> id, returned |-> "True"]
    /\ UNCHANGED <<task_queues, agent_handlers, is_running, workers>>

\* agents/agent_manager.py:309-318 and 330-340: the worker takes the next task
\* of its queue, drops it when it is cancelled, and otherwise marks it running
\* and waits for the task_started event to be published
WorkerGets(a) ==
    /\ workers[a].pc = "get"
    /\ task_queues[a] # <<>>
    /\ LET id == Head(task_queues[a])
       IN /\ task_queues' = [task_queues EXCEPT ![a] = Tail(@)]
          /\ IF tasks[id].status = "cancelled"
             THEN UNCHANGED <<tasks, workers>>
             ELSE /\ tasks' = [tasks EXCEPT ![id].status = "running",
                                            ![id].runs = @ + 1]
                  /\ workers' = [workers EXCEPT
                                   ![a] = [pc |-> "task_started", task |-> id]]
    /\ UNCHANGED <<agent_handlers, is_running, cancel_result>>

\* agents/agent_manager.py:342-354: with a handler the worker awaits it;
\* without one the task is failed at once
WorkerStarted(a) ==
    /\ workers[a].pc = "task_started"
    /\ IF a \in agent_handlers
       THEN /\ workers' = [workers EXCEPT ![a].pc = "handler"]
            /\ UNCHANGED tasks
       ELSE /\ tasks' = WithStatus(workers[a].task, "failed")
            /\ workers' = [workers EXCEPT ![a].pc = "task_completed"]
    /\ UNCHANGED <<task_queues, agent_handlers, is_running, cancel_result>>

HandlerOutcomes == {"returns", "raises"}

\* agents/agent_manager.py:346-348 and 371-374: what the handler's end
\* writes into the task
TaskHandlerReturns(a, outcome) ==
    /\ workers[a].pc = "handler"
    /\ IF outcome = "returns"
       THEN /\ tasks' = WithStatus(workers[a].task, "completed")
            /\ workers' = [workers EXCEPT ![a].pc = "task_completed"]
       ELSE /\ tasks' = WithStatus(workers[a].task, "failed")
            /\ workers' = [workers EXCEPT ![a].pc = "task_failed"]
    /\ UNCHANGED <<task_queues, agent_handlers, is_running, cancel_result>>

\* agents/agent_manager.py:365-369 and 381-385, then 309: the last event is
\* published and the worker is back at its queue
WorkerPublished(a) ==
    /\ workers[a].pc \in {"task_completed", "task_failed"}
    /\ workers' = [workers EXCEPT ![a] = [pc |-> "get", task |-> 0]]
    /\ UNCHANGED <<tasks, task_queues, agent_handlers, is_running,
                   cancel_result>>

\* --------------------------------------------------------- specifications
Init ==
    /\ agents = <<>>
    /\ agent_types = <<>>
    /\ comm_agents = <<>>
    /\ message_queues = <<>>
    /\ workflows = <<>>
    /\ next_uuid = 0
    /\ exec = [c \in Calls |-> IdleFrame]
    /\ reg = [r \in RegCalls |-> IdleReg]
    /\ definition = <<>>
    /\ ServiceInit
    /\ BusInit
    /\ TaskInit

DoCreateWorkflow ==
    \E def \in WfDefinitions : CreateWorkflow(def) /\ UNCHANGED <<definition, serviceVars, busVars>>
DoExecuteUnknown ==
    \E c \in Calls, wid \in WorkflowIds :
        ExecuteUnknown(c, wid) /\ UNCHANGED <<definition, serviceVars, busVars>>
DoExecuteWorkflow ==
    \E c \in Calls, wid \in WorkflowIds, pick \in Picks :
        ExecuteWorkflow(c, wid, pick) /\ UNCHANGED <<definition, serviceVars, busVars>>
DoAgentResponds ==
    \E c \in Calls, outcome \in Outcomes, data \in DataVals, pick \in Picks :
        AgentResponds(c, outcome, data, pick) /\ UNCHANGED <<definition, serviceVars, busVars>>
DoSleepDone ==
    \E c \in Calls, pick \in Picks : SleepDone(c, pick) /\ UNCHANGED <<definition, serviceVars, busVars>>
\* a caller that makes its calls on a workflow one after the other
DoExecuteWorkflowAlone ==
    \E c \in Calls, wid \in WorkflowIds, pick \in Picks :
        /\ \A b \in Calls : exec[b].pc \notin {"await", "sleep"}
        /\ ExecuteWorkflow(c, wid, pick)
        /\ UNCHANGED <<definition, serviceVars, busVars>>
DoRegisterAgent ==
    \E r \in WfRegCalls, inst \in WfInstances, t \in WfTypes :
        RegisterAgent(r, inst, t) /\ UNCHANGED <<definition, serviceVars, busVars>>
DoCapabilitiesReturn ==
    \E r \in WfRegCalls, ok \in HookOutcomes :
        CapabilitiesReturn(r, ok) /\ UNCHANGED <<definition, serviceVars, busVars>>
DoUnregisterAgent ==
    \E r \in WfRegCalls, a \in {AgentIdOf(i) : i \in WfInstances} :
        UnregisterAgent(r, a) /\ UNCHANGED <<definition, serviceVars, busVars>>
DoStopReturn ==
    \E r \in WfRegCalls : StopReturn(r) /\ UNCHANGED <<definition, serviceVars, busVars>>
DoShutdownReturn ==
    \E r \in WfRegCalls, ok \in HookOutcomes :
        ShutdownReturn(r, ok) /\ UNCHANGED <<definition, serviceVars, busVars>>

Next ==
    \/ DoCreateWorkflow
    \/ DoExecuteUnknown
    \/ DoExecuteWorkflow
    \/ DoAgentResponds
    \/ DoSleepDone
    \/ DoRegisterAgent
    \/ DoCapabilitiesReturn
    \/ DoUnregisterAgent
    \/ DoStopReturn
    \/ DoShutdownReturn

Spec == Init /\ [][Next]_vars

\* the same system when no two execute_workflow calls overlap
NextSequential ==
    \/ DoCreateWorkflow
    \/ DoExecuteUnknown
    \/ DoExecuteWorkflowAlone
    \/ DoAgentResponds
    \/ DoSleepDone
    \/ DoRegisterAgent
    \/ DoCapabilitiesReturn
    \/ DoUnregisterAgent
    \/ DoStopReturn
    \/ DoShutdownReturn

SpecSequential == Init /\ [][NextSequential]_vars

\* ------------------------------------------------------ workflow engine
Steps(wid) == workflows[wid].steps
StepIdx(wid) == 1..Len(workflows[wid].steps)
Terminal(status) == status \in {"completed", "failed"}
DepsCompleted(w, k) ==
    \A d \in Range(w.steps[k].dependencies) : StepStatus(w, d) = "completed"

\* C1: a step is running, or was ever started, only with every step of its
\* resolved dependency list completed; so a step with a failed dependency
\* has never left pending.
C1_DependencyOrdering ==
    \A wid \in DOMAIN workflows : \A k \in StepIdx(wid) :
        Steps(wid)[k].status # "pending" => DepsCompleted(workflows[wid], k)

\* a step that has dependencies is running
C1_Witness ==
    \E wid \in DOMAIN workflows : \E k \in StepIdx(wid) :
        /\ Steps(wid)[k].status = "running"
        /\ Steps(wid)[k].dependencies # <<>>

\* a call that ends by raising, with k the step that failed in it
RaisesAt(c, wid, k) ==
    /\ exec[c].pc # "raised"
    /\ exec'[c].pc = "raised"
    /\ exec'[c].wf = wid
    /\ exec'[c].cur = k

\* C2: when a dispatched step fails, the same step of the call marks the
\* step failed and the workflow failed, ends the call by raising and starts
\* no other step; the call that raised does nothing afterwards; and a step
\* that depends on a failed step is pending.
C2_AbortOnFailure ==
    /\ [][\A wid \in DOMAIN workflows : \A k \in StepIdx(wid) :
            (Steps(wid)[k].status # "failed"
                /\ workflows'[wid].steps[k].status = "failed")
            => /\ workflows'[wid].status = "failed"
               /\ \E c \in Calls : RaisesAt(c, wid, k)
               /\ \A j \in StepIdx(wid) \ {k} :
                     Steps(wid)[j].status = "pending"
                     => workflows'[wid].steps[j].status = "pending"]_vars
    /\ [][\A c \in Calls : exec[c].pc = "raised" => exec'[c] = exec[c]]_vars
    /\ [](\A wid \in DOMAIN workflows : \A k \in StepIdx(wid) :
            (\E d \in Range(Steps(wid)[k].dependencies) :
                StepStatus(workflows[wid], d) = "failed")
            => Steps(wid)[k].status = "pending")

\* the scenario [ok, fail, ok depending on index 1] after the call raised
C2_Witness ==
    \E wid \in DOMAIN workflows :
        /\ Len(Steps(wid)) = 3
        /\ Steps(wid)[1].dependencies = <<>>
        /\ Steps(wid)[2].dependencies = <<>>
        /\ Steps(wid)[3].dependencies = <<Steps(wid)[2].step_id>>
        /\ Steps(wid)[1].status = "completed"
        /\ Steps(wid)[2].status = "failed"
        /\ Steps(wid)[3].status = "pending"
        /\ workflows[wid].status = "failed"
        /\ \E c \in Calls : exec[c].pc = "raised" /\ exec[c].wf = wid
                            /\ exec[c].cur = 2

\* C3: once a step of a workflow has failed, the workflow is failed and
\* stays failed, and no pending step of it is started any more, whatever
\* is called afterwards.
C3_NoStepAfterFailure ==
    [][\A wid \in DOMAIN workflows :
          (\E k \in StepIdx(wid) : Steps(wid)[k].status = "failed")
          => /\ workflows[wid].status = "failed"
             /\ workflows'[wid].status = "failed"
             /\ \A j \in StepIdx(wid) :
                   Steps(wid)[j].status = "pending"
                   => workflows'[wid].steps[j].status = "pending"]_vars

AllCompleted(wid) ==
    \A k \in StepIdx(wid) : Steps(wid)[k].status = "completed"

\* C4 as stated, for the workflows that have steps: a workflow is completed
\* if and only if every one of its steps is completed.
C4_CompletedIffAllCompleted ==
    \A wid \in DOMAIN workflows :
        Len(Steps(wid)) > 0
        => (workflows[wid].status = "completed" <=> AllCompleted(wid))

\* C4 as amended: a workflow is completed only if every one of its steps
\* is completed.
C4_CompletedOnlyIfAllCompleted ==
    \A wid \in DOMAIN workflows :
        workflows[wid].status = "completed" => AllCompleted(wid)

\* a workflow of several steps is completed
C4_Witness ==
    \E wid \in DOMAIN workflows :
        workflows[wid].status = "completed" /\ Len(Steps(wid)) >= 2

\* C5: the status of a workflow moves only pending -> running ->
\* completed or failed (a call that does not suspend takes a pending
\* workflow through running to its end in one step), and a completed or
\* failed workflow keeps its status.
C5_TerminalFinal ==
    [][\A wid \in DOMAIN workflows :
          \/ workflows'[wid].status = workflows[wid].status
          \/ workflows[wid].status = "pending"
                /\ workflows'[wid].status # "pending"
          \/ workflows[wid].status = "running"
                /\ Terminal(workflows'[wid].status)]_vars

\* what the definition [step 0 depends on 1, step 1 depends on 0, ...]
\* resolves to: step 0 without dependency, step 1 depending on step 0
FromCyclicDefinition(w) ==
    /\ Len(w.steps) >= 2
    /\ w.steps[1].dependencies = <<>>
    /\ w.steps[2].dependencies = <<w.steps[1].step_id>>

\* the call sleeping between two scans returns or starts a step when it
\* wakes up
WakesToProgress(c) ==
    LET w == workflows[exec[c].wf]
    IN \/ ~LoopTest(exec[c], w)
       \/ \E k \in 1..Len(w.steps) :
             Eligible(w.steps[k], exec[c].completed_steps)

\* C6: a call on a workflow made from a cyclic definition never hangs: it
\* is never between two scans with nothing left that it could start and no
\* way to return.
C6_NeverHangs ==
    \A c \in Calls :
        (exec[c].pc = "sleep" /\ FromCyclicDefinition(workflows[exec[c].wf]))
        => WakesToProgress(c)

\* C7: a call does not go on to another scan after a scan that started no
\* step while a step of the workflow is not terminal.
C7_DeadlockOnIdleScan ==
    \A c \in Calls :
        exec[c].pc = "sleep"
        => ~(/\ ~exec[c].progress
             /\ \E k \in StepIdx(exec[c].wf) :
                   ~Terminal(Steps(exec[c].wf)[k].status))

\* C9: a call that returns has marked the workflow completed and returns a
\* map whose keys are exactly the step ids of the workflow, each with the
\* payload its step got from the agent; a call that is over has returned
\* such a map or raised; and a call in which every step of the workflow
\* succeeded returns when it wakes up from the scan.
C9_CompleteResultMap ==
    /\ [][\A c \in Calls :
            (/\ exec[c].pc = "sleep"
             /\ exec[c].completed_steps = StepIds(workflows[exec[c].wf])
             /\ exec'[c] # exec[c])
            => exec'[c].pc = "returned"]_vars
    /\ [][\A c \in Calls :
            (exec[c].pc # "returned" /\ exec'[c].pc = "returned")
            => LET w == workflows'[exec'[c].wf]
               IN /\ w.status = "completed"
                  /\ exec'[c].error = NoError
                  /\ DOMAIN exec'[c].results = StepIds(w)
                  /\ \A k \in 1..Len(w.steps) :
                        /\ w.steps[k].status = "completed"
                        /\ exec'[c].results[w.steps[k].step_id]
                              = w.steps[k].result]_vars

\* a call returned the results of a workflow of several steps, not all equal
C9_Witness ==
    \E c \in Calls :
        /\ exec[c].pc = "returned"
        /\ Cardinality(DOMAIN exec[c].results) >= 2
        /\ \E x, y \in DOMAIN exec[c].results :
              exec[c].results[x] # exec[c].results[y]

\* ------------------------------------------- create_workflow on its inputs
\* Values a definition may declare as a dependency: integers inside and
\* outside the range of positions, and a value that is no integer
DeclaredValues ==
    {DepVal(TRUE, v) : v \in {-1, 0, 1, 2}} \cup {DepVal(FALSE, 0)}
DeclaredLists ==
    {<<>>} \cup {<<a>> : a \in DeclaredValues}
           \cup {<<a, b>> : a, b \in DeclaredValues}
StepDefs == [agent : AgentTypes, dependencies : DeclaredLists]
Definitions == UNION {[1..n -> StepDefs] : n \in {0, 1, 2}}

InitCreate ==
    /\ agents = <<>>
    /\ agent_types = <<>>
    /\ comm_agents = <<>>
    /\ message_queues = <<>>
    /\ workflows = <<>>
    /\ next_uuid = 0
    /\ exec = [c \in Calls |-> IdleFrame]
    /\ reg = [r \in RegCalls |-> IdleReg]
    /\ definition \in Definitions
    /\ ServiceInit
    /\ BusInit
    /\ TaskInit

CreateFromDefinition == CreateWorkflow(definition) /\ UNCHANGED <<definition, serviceVars, busVars>>

NextCreate == CreateFromDefinition

SpecCreate == InitCreate /\ [][NextCreate]_vars

\* the declared indices of the step at 0-based position i that the claim
\* keeps: the integers j with 0 <= j < i
KeptPositions(declared, i) ==
    {k \in 1..Len(declared) :
        declared[k].is_int /\ declared[k].v >= 0 /\ declared[k].v < i}

RegistryRegisterAgent ==
    \E r \in RegCalls, inst \in Instances, t \in AgentTypes :
        RegisterAgent(r, inst, t) /\ UNCHANGED <<definition, serviceVars, busVars>>
RegistryCapabilitiesReturn ==
    \E r \in RegCalls, ok \in BOOLEAN :
        CapabilitiesReturn(r, ok) /\ UNCHANGED <<definition, serviceVars, busVars>>
RegistryUnregisterAgent ==
    \E r \in RegCalls, a \in AgentIds :
        UnregisterAgent(r, a) /\ UNCHANGED <<definition, serviceVars, busVars>>
RegistryStopReturn ==
    \E r \in RegCalls : StopReturn(r) /\ UNCHANGED <<definition, serviceVars, busVars>>
RegistryShutdownReturn ==
    \E r \in RegCalls, ok \in BOOLEAN :
        ShutdownReturn(r, ok) /\ UNCHANGED <<definition, serviceVars, busVars>>

NextRegistry ==
    \/ RegistryRegisterAgent
    \/ RegistryCapabilitiesReturn
    \/ RegistryUnregisterAgent
    \/ RegistryStopReturn
    \/ RegistryShutdownReturn

SpecRegistry == Init /\ [][NextRegistry]_vars

\* a register_agent call begins in this step
RegisterBegins(r) ==
    /\ reg[r].pc \in {"idle", "returned", "raised"}
    /\ reg'[r].op = "register"
    /\ reg'[r].pc = "caps" \/ (reg'[r].pc = "raised" /\ reg'[r] # reg[r])

\* C10: a register_agent call for an agent id that has a registration ends
\* at once with the duplicate error and changes neither the registrations
\* (so the registered instance stays), nor the category index, nor the
\* endpoints and queues of the bus.
C10_DuplicateRegistration ==
    [][\A r \in RegCalls :
          (RegisterBegins(r) /\ reg'[r].agent_id \in DOMAIN agents)
          => /\ reg'[r].pc = "raised"
             /\ reg'[r].error = "duplicate"
             /\ UNCHANGED <<agents, agent_types, comm_agents,
                            message_queues>>]_vars

\* a second instance with a registered id was refused for another category
C10_Witness ==
    \E r \in RegCalls :
        /\ reg[r].pc = "raised"
        /\ reg[r].error = "duplicate"
        /\ reg[r].agent_id \in DOMAIN agents
        /\ agents[reg[r].agent_id].agent_instance # reg[r].inst
        /\ agents[reg[r].agent_id].agent_type # reg[r].agent_type
        /\ reg[r].agent_id \in DOMAIN comm_agents

\* ------------------------------------- registry, routing and health monitor
\* agent instances the service specification registers
SvcInstances == {"i1", "i3"}
\* the callers of the service specification make their registry calls one
\* after the other
SvcRegCalls == {1}
\* the category its agents are registered in and queried by
SvcTypes == {"legal"}
\* the timeout arguments its callers pass
Timeouts == {NoTimeout, <<ExplicitTimeout>>}
\* what the iterator of the monitor can give
Items == AgentIds \cup {"RuntimeError", "StopIteration"}

ServiceRegisterAgent ==
    \E r \in SvcRegCalls, inst \in SvcInstances, t \in SvcTypes :
        RegisterAgent(r, inst, t) /\ UNCHANGED <<definition, serviceVars, busVars>>
\* agent_manager.py:31-32: the stored registration takes its timestamps
\* from the clock
ServiceCapabilitiesReturn ==
    \E r \in SvcRegCalls, ok \in HookOutcomes :
        /\ CapabilitiesReturn(r, ok)
        /\ IF ok
           THEN /\ utcnow < MaxClock
                /\ utcnow' = utcnow + 1
                /\ timestamps' = DictSet(timestamps, reg[r].agent_id,
                      [registered_at |-> utcnow + 1,
                       last_heartbeat |-> utcnow + 1])
           ELSE UNCHANGED <<utcnow, timestamps>>
        /\ UNCHANGED <<definition, running, query, health_check_task,
                       busVars>>
ServiceUnregisterAgent ==
    \E r \in SvcRegCalls, a \in AgentIds :
        UnregisterAgent(r, a) /\ UNCHANGED <<definition, serviceVars, busVars>>
ServiceStopReturn ==
    \E r \in SvcRegCalls :
        StopReturn(r) /\ UNCHANGED <<definition, serviceVars, busVars>>
\* agent_manager.py:194: the timestamps go with the deleted registration
ServiceShutdownReturn ==
    \E r \in SvcRegCalls, ok \in HookOutcomes :
        /\ ShutdownReturn(r, ok)
        /\ timestamps' = [a \in DOMAIN agents' |-> timestamps[a]]
        /\ UNCHANGED <<definition, running, utcnow, query,
                       health_check_task, busVars>>
ServiceQueryAgent ==
    \E q \in Queries, t \in SvcTypes, timeout \in Timeouts,
       pick \in Picks :
        QueryAgent(q, t, timeout, pick)
ServiceQueryReturn ==
    \E q \in Queries, awaited \in Awaited : QueryReturn(q, awaited)
ServiceStart == Start
ServiceBeginCycle == \E item \in Items : BeginCycle(item)
ServiceHealthCheckReturn ==
    \E outcome \in HealthOutcomes, item \in Items :
        HealthCheckReturn(outcome, item)

\* the registry and its callers' queries
NextRouting ==
    \/ ServiceRegisterAgent
    \/ ServiceCapabilitiesReturn
    \/ ServiceUnregisterAgent
    \/ ServiceStopReturn
    \/ ServiceShutdownReturn
    \/ ServiceQueryAgent
    \/ ServiceQueryReturn

SpecRouting == Init /\ [][NextRouting]_vars

\* the registrations of a category
Registered(t) == {a \in DOMAIN agents : agents[a].agent_type = t}

\* an unregister_agent call begins in this step
UnregisterBegins(r) ==
    /\ reg[r].pc \in {"idle", "returned", "raised"}
    /\ reg'[r].op = "unregister"
    /\ reg'[r] # reg[r]

\* C11: unregister_agent on an id without registration returns at once and
\* changes nothing; a call on a registered id that has returned has invoked
\* the shutdown hook once and has left the id without registration (so
\* get_agent_status gives absent), outside every category, without bus
\* endpoint and without queue; no category is left empty in the index; a
\* call that returns without having found a registration has invoked no
\* hook.
C11_UnregisterIdempotent ==
    /\ [][\A r \in SvcRegCalls :
            (UnregisterBegins(r) /\ reg'[r].agent_id \notin DOMAIN agents)
            => /\ reg'[r].pc = "returned"
               /\ reg'[r].shutdowns = 0
               /\ UNCHANGED <<agents, agent_types, comm_agents,
                              message_queues, timestamps>>]_vars
    /\ [][\A r \in SvcRegCalls :
            (UnregisterBegins(r) /\ reg'[r].agent_id \in DOMAIN agents)
            => reg'[r].pc \in {"stop", "shutdown"}]_vars
    /\ [][\A r \in SvcRegCalls :
            (reg[r].pc \in {"stop", "shutdown"} /\ reg'[r].pc = "returned")
            => reg'[r].shutdowns = 1]_vars
    /\ [](\A r \in SvcRegCalls :
            (reg[r].op = "unregister" /\ reg[r].pc = "returned")
            => /\ reg[r].agent_id \notin DOMAIN agents
               /\ GetAgentStatus(reg[r].agent_id) = "absent"
               /\ \A t \in DOMAIN agent_types :
                     reg[r].agent_id \notin agent_types[t]
               /\ reg[r].agent_id \notin DOMAIN comm_agents
               /\ reg[r].agent_id \notin DOMAIN message_queues)
    /\ [](\A t \in DOMAIN agent_types : agent_types[t] # {})

\* one of the two members of a category has been unregistered
C11_Witness ==
    \E r \in SvcRegCalls :
        /\ reg[r].op = "unregister"
        /\ reg[r].pc = "returned"
        /\ reg[r].shutdowns = 1
        /\ \E t \in DOMAIN agent_types :
              agent_types[t] = AgentIds \ {reg[r].agent_id}

\* C12: a query_agent call for a category in which no agent has a
\* registration (each one registered there has been unregistered) raises the
\* no-agent error and invokes no agent.
C12_RoundTripRegistry ==
    [][\A q \in Queries, t \in SvcTypes, timeout \in Timeouts,
         pick \in Picks :
          (QueryAgent(q, t, timeout, pick) /\ Registered(t) = {})
          => /\ query'[q].pc = "raised"
             /\ query'[q].error = "no_agent"
             /\ query'[q].invoked = <<>>]_vars

\* a query refused after the register/unregister round trip of the only
\* member of its category
C12_Witness ==
    \E q \in Queries, r \in SvcRegCalls :
        /\ query[q].pc = "raised"
        /\ query[q].error = "no_agent"
        /\ reg[r].op = "unregister"
        /\ reg[r].pc = "returned"
        /\ reg[r].shutdowns = 1
        /\ agents = <<>>

\* the calls q..p are consecutive dispatches for one category whose members
\* did not change
SameMembers(q, p) ==
    \A c \in q..p :
        /\ query[c].agent # "none"
        /\ query[c].agent_type = query[q].agent_type
        /\ query[c].agent_ids = query[q].agent_ids

\* C15: any N consecutive query_agent calls for a category of N > 1
\* members that did not change select N different members.
C15_RoundRobin ==
    \A q, p \in Queries :
        (q < p /\ SameMembers(q, p)
           /\ p - q < Cardinality(query[q].agent_ids))
        => query[q].agent # query[p].agent

\* C16: a query_agent call for a category of exactly one member awaits
\* process_request of the instance registered under that member's id, and
\* no call ever invokes a further instance afterwards.
C16_SingleMemberRouting ==
    /\ [][\A q \in Queries, t \in SvcTypes, timeout \in Timeouts,
            pick \in Picks :
            (QueryAgent(q, t, timeout, pick) /\ HasAgent(t)
               /\ Cardinality(agent_types[t]) = 1)
            => \E a \in agent_types[t] :
                  /\ query'[q].pc = "await"
                  /\ query'[q].agent = a
                  /\ query'[q].invoked = <<agents[a].agent_instance>>]_vars
    /\ [][\A q \in Queries :
            query[q].pc # "idle" => query'[q].invoked = query[q].invoked]_vars

\* a query dispatched to the only member of its category while another
\* agent is on its way out of the registry
C16_Witness ==
    \E q \in Queries :
        /\ query[q].pc = "await"
        /\ Cardinality(query[q].agent_ids) = 1
        /\ query[q].invoked = <<"i3">>
        /\ "a1" \in DOMAIN agents

\* C17: a dispatching query_agent call invokes process_request of the
\* selected instance once, under the explicit timeout or else the timeout
\* of the instance's configuration; when the deadline elapses the call ends
\* with the timeout error and has invoked nothing further; no call ever
\* makes more than one invocation.
C17_DeadlineNoRetry ==
    /\ [][\A q \in Queries, t \in SvcTypes, timeout \in Timeouts,
            pick \in Picks :
            (QueryAgent(q, t, timeout, pick) /\ query'[q].pc = "await")
            => /\ query'[q].invoked = <<query'[q].inst>>
               /\ query'[q].deadline =
                     (IF timeout = <<>> THEN 60 ELSE timeout[1])]_vars
    /\ [][\A q \in Queries :
            QueryReturn(q, "TimeoutError")
            => /\ query'[q].pc = "raised"
               /\ query'[q].error = "timeout"
               /\ query'[q].invoked = query[q].invoked]_vars
    /\ [](\A q \in Queries : Len(query[q].invoked) <= 1)

\* a call that timed out although its category had a second member
C17_Witness ==
    \E q \in Queries :
        /\ query[q].pc = "raised"
        /\ query[q].error = "timeout"
        /\ Len(query[q].invoked) = 1
        /\ Cardinality(query[q].agent_ids) = 2

\* the query_agent calls made while the monitor runs
MonitorQueries == {1}
MonitorQueryAgent ==
    \E q \in MonitorQueries, t \in SvcTypes, timeout \in Timeouts,
       pick \in Picks :
        QueryAgent(q, t, timeout, pick)

\* the registry, the health monitor and a caller's query
NextMonitor ==
    \/ ServiceRegisterAgent
    \/ ServiceCapabilitiesReturn
    \/ ServiceUnregisterAgent
    \/ ServiceStopReturn
    \/ ServiceShutdownReturn
    \/ MonitorQueryAgent
    \/ ServiceQueryReturn
    \/ ServiceStart
    \/ ServiceBeginCycle
    \/ ServiceHealthCheckReturn

SpecMonitor == Init /\ [][NextMonitor]_vars

\* the members of a category whose status is active
ActiveMembers(t) ==
    IF t \notin DOMAIN agent_types THEN {}
    ELSE {a \in agent_types[t] :
             a \in DOMAIN agents /\ agents[a].status = "active"}

\* C13: a query_agent call for a category without active member raises the
\* no-agent error, and a call that dispatches selects an active member.
C13_OnlyActiveMembers ==
    [][\A q \in Queries, t \in SvcTypes, timeout \in Timeouts,
         pick \in Picks :
          QueryAgent(q, t, timeout, pick)
          => IF ActiveMembers(t) = {}
             THEN query'[q].pc = "raised" /\ query'[q].error = "no_agent"
             ELSE query'[q].agent \in ActiveMembers(t)]_vars

\* the registration the monitor holds is the one stored under its id
MonitorHolds ==
    Holds(health_check_task.agent, health_check_task.registered_at)

\* C14: when a health check ends, the registration checked becomes active
\* with its last_heartbeat set to the clock value just read if the check
\* reported healthy, and becomes error with its last_heartbeat as it was if
\* the check reported another status or raised; a cycle over a registry
\* that did not change ends only when every registration has been checked.
C14_HealthCheckEffects ==
    /\ [][\A outcome \in HealthOutcomes, item \in Items :
            (HealthCheckReturn(outcome, item) /\ MonitorHolds)
            => LET a == health_check_task.agent IN
               IF outcome = "healthy"
               THEN /\ agents'[a].status = "active"
                    /\ utcnow' > utcnow
                    /\ timestamps'[a].last_heartbeat = utcnow'
               ELSE /\ agents'[a].status = "error"
                    /\ timestamps'[a].last_heartbeat =
                          timestamps[a].last_heartbeat]_vars
    /\ [][(health_check_task.pc = "check"
             /\ health_check_task'.pc = "sleep"
             /\ Stored = health_check_task.keys)
          => DOMAIN agents \subseteq
                DOMAIN health_check_task.checked
                   \cup {health_check_task.agent}]_vars

\* a cycle has ended with an agent demoted and its heartbeat stale
C14_Witness ==
    /\ health_check_task.pc = "sleep"
    /\ \E a \in DOMAIN agents :
          /\ agents[a].status = "error"
          /\ timestamps[a].last_heartbeat = timestamps[a].registered_at
          /\ utcnow > timestamps[a].last_heartbeat

\* the registration stored under a in this state and in the next one is
\* the same object
SameRegistration(a) ==
    /\ a \in DOMAIN timestamps
    /\ a \in DOMAIN timestamps'
    /\ timestamps'[a].registered_at = timestamps[a].registered_at

\* C18: the last_heartbeat of a registration changes only when its health
\* check reports healthy or when a query dispatched to it returns a
\* response with success=True, and no step of a query_agent call changes
\* the status of a registration.
C18_HeartbeatOnlyOnSuccess ==
    /\ [][\A a \in AgentIds :
            (SameRegistration(a)
               /\ timestamps'[a].last_heartbeat # timestamps[a].last_heartbeat)
            => \/ /\ health_check_task.agent = a
                  /\ \E item \in Items : HealthCheckReturn("healthy", item)
               \/ \E q \in Queries :
                     query[q].agent = a /\ QueryReturn(q, "success")]_vars
    /\ [][\A q \in Queries :
            query'[q] # query[q] => agents' = agents]_vars

\* C19: a health check that raises or reports unhealthy changes no other
\* registration, and the loop goes on: over a registry that did not change
\* it checks one of the registrations left, or sleeps at the end of the
\* cycle when none is left; the loop never ends.
C19_FailuresIsolated ==
    /\ [][\A outcome \in {"unhealthy", "Exception"}, item \in Items :
            HealthCheckReturn(outcome, item)
            => LET f == health_check_task
                   left == DOMAIN f.keys \ (DOMAIN f.checked \cup {f.agent})
               IN /\ \A b \in DOMAIN agents \ {f.agent} :
                        /\ agents'[b] = agents[b]
                        /\ timestamps'[b] = timestamps[b]
                  /\ Stored = f.keys
                     => IF left = {}
                        THEN health_check_task'.pc = "sleep"
                        ELSE /\ health_check_task'.pc = "check"
                             /\ health_check_task'.agent \in left]_vars
    /\ [](running => health_check_task.pc \in
                        {"created", "check", "sleep", "retry"})

\* after the failed check of one agent the loop awaits the check of the
\* other one, which is untouched
C19_Witness ==
    /\ health_check_task.pc = "check"
    /\ \E a \in DOMAIN health_check_task.checked :
          /\ a # health_check_task.agent
          /\ a \in DOMAIN agents
          /\ agents[a].status = "error"
    /\ agents[health_check_task.agent].status = "active"

\* C20: the status of every registration is active or error; a registration
\* starts active, and the status of a registration changes only when the
\* health check of that registration ends.
C20_StatusStateMachine ==
    /\ [](\A a \in DOMAIN agents : agents[a].status \in {"active", "error"})
    /\ [][\A a \in DOMAIN agents' :
            ~SameRegistration(a) => agents'[a].status = "active"]_vars
    /\ [][\A a \in DOMAIN agents :
            (SameRegistration(a) /\ agents'[a].status # agents[a].status)
            => /\ health_check_task.agent = a
               /\ \E outcome \in HealthOutcomes, item \in Items :
                     HealthCheckReturn(outcome, item)]_vars

\* one registration demoted while another one is active
C20_Witness ==
    \E a, b \in DOMAIN agents :
        /\ agents[a].status = "error"
        /\ agents[b].status = "active"

\* ------------------------------------------------- the bus and its callers
\* the endpoints the callers of the bus register, each with its handler
BusIds == {"a1", "a2"}
HandlerOf(agent_id) == IF agent_id = "a1" THEN "i1" ELSE "i3"
\* the recipients, senders and events of their messages
Recipients == BusIds \cup {NoRecipient, EmptyId}
Senders == {"a1"}
\* the publishers of events: the endpoints and an agent without endpoint
\* or subscription
Publishers == BusIds \cup {"a3"}
EventTypes == {"e1"}

MsgRegisterAgent ==
    \E a \in BusIds : BusRegisterAgent(a, HandlerOf(a))
MsgUnregisterAgent == \E a \in BusIds : BusUnregisterAgent(a)
MsgStopped == BusStopped
MsgSendMessage ==
    \E sender \in Senders, recipient \in Recipients :
        SendMessage(sender, recipient, "normal")
MsgPublishEvent ==
    \E e \in EventTypes, sender \in Publishers,
       order \in {<<>>} \cup Orders(BusIds)
                 \cup UNION {Orders({a}) : a \in BusIds} :
        PublishEvent(e, sender, order)
MsgSubscribe ==
    \E a \in BusIds, e \in EventTypes : SubscribeToEvent(a, e)
MsgUnsubscribe ==
    \E a \in BusIds, e \in EventTypes : UnsubscribeFromEvent(a, e)
MsgProcessorRuns == \E p \in Tasks : ProcessorRuns(p)
MsgProcessorCancelled == \E p \in Tasks : ProcessorCancelled(p)

\* the bus before start(): its endpoints and the messages sent to them
NextBus ==
    \/ MsgRegisterAgent
    \/ MsgUnregisterAgent
    \/ MsgStopped
    \/ MsgSendMessage
    \/ MsgProcessorRuns
    \/ MsgProcessorCancelled

SpecBus == Init /\ [][NextBus]_vars

\* the bus before start(): its endpoints, subscriptions and events
NextEvents ==
    \/ MsgRegisterAgent
    \/ MsgUnregisterAgent
    \/ MsgStopped
    \/ MsgPublishEvent
    \/ MsgSubscribe
    \/ MsgUnsubscribe
    \/ MsgProcessorRuns
    \/ MsgProcessorCancelled

SpecEvents == Init /\ [][NextEvents]_vars

\* C21: send_message of a message whose recipient is set returns False and
\* changes no queue when the recipient has no endpoint; otherwise it puts
\* the message at the tail of the recipient's queue, changes no other queue
\* and returns True.
C21_DirectSend ==
    [][\A sender \in Senders, recipient \in BusIds :
          SendMessage(sender, recipient, "normal")
          => LET message == bus_result'.message IN
             /\ bus_result'.op = "send_message"
             /\ message.recipient_id = recipient
             /\ IF recipient \notin DOMAIN comm_agents
                THEN /\ bus_result'.returned = "False"
                     /\ message_queues' = message_queues
                ELSE /\ bus_result'.returned = "True"
                     /\ DOMAIN message_queues' = DOMAIN message_queues
                     /\ message_queues'[recipient] =
                           Append(message_queues[recipient], message)
                     /\ \A a \in DOMAIN message_queues \ {recipient} :
                           message_queues'[a] = message_queues[a]]_vars

\* a second message has gone to the tail of one endpoint's queue while the
\* queue of the other endpoint is empty
C21_Witness ==
    /\ bus_result.op = "send_message"
    /\ bus_result.returned = "True"
    /\ DOMAIN message_queues = BusIds
    /\ \E a \in BusIds :
          /\ bus_result.message.recipient_id = a
          /\ Len(message_queues[a]) = 2
          /\ message_queues[a][2] = bus_result.message
          /\ \A b \in BusIds \ {a} : message_queues[b] = <<>>

\* C22: send_message of a message without recipient puts one copy at the
\* tail of the queue of every endpoint, so as many copies as there are
\* endpoints, each with recipient_id set to its endpoint; the caller's
\* message keeps its recipient unset; the call returns True.
C22_BroadcastFanOut ==
    [][\A sender \in Senders, recipient \in {NoRecipient, EmptyId} :
          SendMessage(sender, recipient, "normal")
          => LET message == bus_result'.message IN
             /\ bus_result'.op = "send_message"
             /\ bus_result'.returned = "True"
             /\ message.recipient_id = recipient
             /\ DOMAIN message_queues' = DOMAIN comm_agents
             /\ \A a \in DOMAIN comm_agents :
                   /\ Len(message_queues'[a]) = Len(message_queues[a]) + 1
                   /\ message_queues'[a] =
                         Append(message_queues[a],
                                Message(message.message_id,
                                        message.sender_id, a,
                                        message.message_type,
                                        message.priority))]_vars

\* a broadcast has reached the queues of two endpoints
C22_Witness ==
    /\ bus_result.op = "send_message"
    /\ bus_result.returned = "True"
    /\ bus_result.message.recipient_id = NoRecipient
    /\ DOMAIN comm_agents = BusIds
    /\ \A a \in BusIds :
          /\ message_queues[a] # <<>>
          /\ message_queues[a][Len(message_queues[a])].message_id =
                bus_result.message.message_id
          /\ message_queues[a][Len(message_queues[a])].recipient_id = a

\* the status-update message publish_event makes for a subscriber
EventMessage(message_id, sender_id, agent_id) ==
    Message(message_id, sender_id, agent_id, "status_update", "normal")

\* C23: publish_event puts one status-update message, with the subscriber
\* as its recipient, on the queue of every subscriber of the event that is
\* not the sender (here: of every such subscriber that has an endpoint),
\* and changes no other queue.
C23_PublishToSubscribers ==
    [][\A e \in EventTypes, sender \in Publishers,
         order \in {<<>>} \cup Orders(BusIds)
                   \cup UNION {Orders({a}) : a \in BusIds} :
          PublishEvent(e, sender, order)
          => \A a \in DOMAIN message_queues :
                IF e \in DOMAIN subscriptions /\ a \in subscriptions[e]
                   /\ a # sender
                THEN message_queues'[a] =
                        Append(message_queues[a],
                               EventMessage(next_uuid', sender, a))
                ELSE message_queues'[a] = message_queues[a]]_vars

\* a subscribe_to_event, unsubscribe_from_event or unregister_agent call of
\* the bus ends in this step
SubscribeEnds(a, e) == SubscribeToEvent(a, e)
UnsubscribeEnds(a, e) == UnsubscribeFromEvent(a, e)
UnregisterEnds(a) ==
    /\ a \in DOMAIN comm_agents
    /\ a \notin DOMAIN comm_agents'

\* the events agent a is subscribed to
EventsOf(subs, a) == {e \in DOMAIN subs : a \in subs[e]}

\* C24: no event of the subscription registry has an empty set of
\* subscribers; subscribe_to_event adds the agent to the event and changes
\* nothing when it is subscribed already; unsubscribe_from_event takes the
\* agent from the event and changes nothing for a non-subscriber or an
\* unknown event; unregister_agent of the bus takes the agent from every
\* event; none of them changes the subscriptions of another agent or event.
C24_SubscriptionsPruned ==
    /\ [](\A e \in DOMAIN subscriptions : subscriptions[e] # {})
    /\ [][\A a \in BusIds, e \in EventTypes :
            SubscribeEnds(a, e)
            => /\ EventsOf(subscriptions', a) = EventsOf(subscriptions, a)
                                                   \cup {e}
               /\ e \in EventsOf(subscriptions, a)
                  => subscriptions' = subscriptions
               /\ \A b \in BusIds \ {a} :
                     EventsOf(subscriptions', b) = EventsOf(subscriptions, b)
          ]_vars
    /\ [][\A a \in BusIds, e \in EventTypes :
            UnsubscribeEnds(a, e)
            => /\ EventsOf(subscriptions', a) = EventsOf(subscriptions, a)
                                                   \ {e}
               /\ e \notin EventsOf(subscriptions, a)
                  => subscriptions' = subscriptions
               /\ \A b \in BusIds \ {a} :
                     EventsOf(subscriptions', b) = EventsOf(subscriptions, b)
          ]_vars
    /\ [][\A a \in BusIds :
            UnregisterEnds(a)
            => /\ EventsOf(subscriptions', a) = {}
               /\ \A b \in BusIds \ {a} :
                     EventsOf(subscriptions', b) = EventsOf(subscriptions, b)
          ]_vars

\* the bus is about to delete the endpoint of the only subscriber of an
\* event while the other endpoint stays
C24_Witness ==
    /\ bus_stop.pc = "await"
    /\ bus_stop.op = "unregister_agent"
    /\ processors[bus_stop.task].pc = "done"
    /\ \E e \in DOMAIN subscriptions : subscriptions[e] = {bus_stop.agent_id}
    /\ DOMAIN comm_agents = BusIds

\* ---------------------------------------------------- the consumer loops
\* the priorities of the messages the callers send
Priorities == {"normal", "urgent"}
\* what the handlers of the endpoints give back: nothing, an exception, or
\* a response to an endpoint, to an agent without endpoint, or to nobody
ResponseRecipients == BusIds \cup {"a3", NoRecipient}
HandlerResults ==
    {NoResponse, Raises}
    \cup {Response(r, "normal") : r \in ResponseRecipients}

ConRegisterAgent ==
    \E a \in BusIds : BusRegisterAgent(a, HandlerOf(a))
ConUnregisterAgent == \E a \in BusIds : BusUnregisterAgent(a)
ConStart == BusStart
ConStop == BusStop
ConStopped == BusStopped
ConSendMessage ==
    \E sender \in Senders, recipient \in BusIds, priority \in Priorities :
        SendMessage(sender, recipient, priority)
ConProcessorRuns == \E p \in Tasks : ProcessorRuns(p)
ConProcessorGets == \E p \in Tasks : ProcessorGets(p)
ConProcessorTimesOut == \E p \in Tasks : ProcessorTimesOut(p)
ConHandlerReturns ==
    \E p \in Tasks, result \in HandlerResults : HandlerReturns(p, result)
ConProcessorCancelled == \E p \in Tasks : ProcessorCancelled(p)

\* the bus with start() and stop(), its endpoints, their consumer loops and
\* handlers, and the senders of messages
NextConsumers ==
    \/ ConRegisterAgent
    \/ ConStart
    \/ ConStop
    \/ ConStopped
    \/ ConSendMessage
    \/ ConProcessorRuns
    \/ ConProcessorGets
    \/ ConProcessorTimesOut
    \/ ConHandlerReturns
    \/ ConProcessorCancelled

SpecConsumers == Init /\ [][NextConsumers]_vars

\* the same with endpoints that are unregistered too
NextLifecycle ==
    \/ NextConsumers
    \/ ConUnregisterAgent

SpecLifecycle == Init /\ [][NextLifecycle]_vars

\* the queue objects that exist: those of the endpoints and the detached
\* ones a task still holds
QueueIds == {queue_info[a].id : a \in DOMAIN queue_info} \cup DOMAIN detached

C26_HandlerErrorContained ==
    [][\A p \in Tasks :
          HandlerReturns(p, Raises)
          => /\ processors'[p] =
                   IF comm_running
                   THEN [processors[p] EXCEPT !.pc = "get",
                                              !.message = NoMessage,
                                              !.errors = @ + 1]
                   ELSE DoneTask
             /\ \A b \in Tasks \ {p} : processors'[b] = processors[b]
             /\ message_queues' = message_queues
             /\ comm_agents' = comm_agents
             /\ queue_info' = queue_info
             /\ comm_running' = comm_running]_vars

\* a consumer whose handler raised on a message handles the next message of
\* its queue, while the consumer of the other endpoint waits on its queue
C26_Witness ==
    \E p \in Tasks, b \in Tasks :
        /\ processors[p].pc = "handle"
        /\ processors[p].errors = 1
        /\ processors[b].pc = "get"
        /\ processors[b].agent_id # processors[p].agent_id
        /\ processors[b].queue # processors[p].queue

\* the response a handler's result stands for, as the consumer p submits it
ResponseOf(p, result) ==
    Message(next_uuid + 1, processors[p].agent_id, result.recipient_id,
            "task_response", result.priority)

\* C27: a response the handler returns goes through send_message once: it
\* is appended to the queue of its recipient when that is an endpoint, it
\* is dropped (send_message returns False) when the recipient is unknown,
\* and one copy goes to the tail of every endpoint's queue when it has no
\* recipient; a handler that returns nothing or raises changes no queue.
C27_ResponseResubmitted ==
    [][\A p \in Tasks, result \in HandlerResults :
          HandlerReturns(p, result)
          => IF result.kind # "response"
             THEN /\ message_queues' = message_queues
                  /\ bus_result' = bus_result
             ELSE LET response == ResponseOf(p, result)
                      r == result.recipient_id
                  IN /\ bus_result'.op = "send_message"
                     /\ bus_result'.message = response
                     /\ DOMAIN message_queues' = DOMAIN message_queues
                     /\ IF r = NoRecipient
                        THEN /\ bus_result'.returned = "True"
                             /\ \A a \in DOMAIN message_queues :
                                   message_queues'[a] =
                                      Append(message_queues[a],
                                             [response EXCEPT
                                                 !.recipient_id = a])
                        ELSE IF r \in DOMAIN comm_agents
                        THEN /\ bus_result'.returned = "True"
                             /\ message_queues'[r] =
                                   Append(message_queues[r], response)
                             /\ \A a \in DOMAIN message_queues \ {r} :
                                   message_queues'[a] = message_queues[a]
                        ELSE /\ bus_result'.returned = "False"
                             /\ message_queues' = message_queues]_vars

\* the response of one endpoint's handler is the one item of the other
\* endpoint's queue, and its consumer waits for the next message
C27_Witness ==
    /\ bus_result.op = "send_message"
    /\ bus_result.returned = "True"
    /\ bus_result.message.message_type = "task_response"
    /\ \E p \in Tasks :
          /\ processors[p].pc = "get"
          /\ processors[p].agent_id = bus_result.message.sender_id
          /\ bus_result.message.recipient_id \in DOMAIN message_queues
          /\ bus_result.message.recipient_id # processors[p].agent_id
          /\ message_queues[bus_result.message.recipient_id] =
                <<bus_result.message>>

\* C29: the queue of every endpoint has at most one live consumer loop, and
\* no two invocations of the handler of one endpoint are under way at once.
C29_SingleConsumer ==
    \A a \in DOMAIN queue_info :
        /\ Cardinality(Holders(processors, queue_info[a].id)) <= 1
        /\ Cardinality({p \in Tasks : /\ processors[p].pc = "handle"
                                      /\ processors[p].agent_id = a}) <= 1

\* ------------------------------------------------ overlapping registry calls
\* the frames of the registry calls of callers that do not wait for each
\* other (tasks of one event loop, as under asyncio.gather)
ConcurrentCalls == 1..(MaxRegCalls + 1)
\* the instances they register: two objects configured with one agent_id
ConcurrentInstances == {"i1", "i2"}

InitConcurrent ==
    /\ agents = <<>>
    /\ agent_types = <<>>
    /\ comm_agents = <<>>
    /\ message_queues = <<>>
    /\ workflows = <<>>
    /\ next_uuid = 0
    /\ exec = [c \in Calls |-> IdleFrame]
    /\ reg = [r \in ConcurrentCalls |-> IdleReg]
    /\ definition = <<>>
    /\ ServiceInit
    /\ BusInit
    /\ TaskInit

ParRegisterAgent ==
    \E r \in ConcurrentCalls, inst \in ConcurrentInstances,
       t \in AgentTypes :
        RegisterAgent(r, inst, t)
        /\ UNCHANGED <<definition, serviceVars, busVars>>
ParCapabilitiesReturn ==
    \E r \in ConcurrentCalls, ok \in HookOutcomes :
        CapabilitiesReturn(r, ok)
        /\ UNCHANGED <<definition, serviceVars, busVars>>
ParUnregisterAgent ==
    \E r \in ConcurrentCalls,
       a \in {AgentIdOf(i) : i \in ConcurrentInstances} :
        UnregisterAgent(r, a)
        /\ UNCHANGED <<definition, serviceVars, busVars>>
ParStopReturn ==
    \E r \in ConcurrentCalls :
        StopReturn(r) /\ UNCHANGED <<definition, serviceVars, busVars>>
ParShutdownReturn ==
    \E r \in ConcurrentCalls, ok \in HookOutcomes :
        ShutdownReturn(r, ok)
        /\ UNCHANGED <<definition, serviceVars, busVars>>

NextConcurrent ==
    \/ ParRegisterAgent
    \/ ParCapabilitiesReturn
    \/ ParUnregisterAgent
    \/ ParStopReturn
    \/ ParShutdownReturn

SpecConcurrent == InitConcurrent /\ [][NextConcurrent]_vars

\* the registry, the category index and the bus name the same agents: each
\* registered id is in its own category only and has the endpoint of its
\* registered instance
RegistryConsistent ==
    /\ DOMAIN comm_agents = DOMAIN agents
    /\ DOMAIN message_queues = DOMAIN agents
    /\ \A a \in DOMAIN agents :
          comm_agents[a] = agents[a].agent_instance
    /\ \A t \in DOMAIN agent_types :
          /\ agent_types[t] # {}
          /\ agent_types[t] =
                {a \in DOMAIN agents : agents[a].agent_type = t}
    /\ \A a \in DOMAIN agents : agents[a].agent_type \in DOMAIN agent_types

\* C28: overlapping register_agent and unregister_agent calls of agents
\* whose hooks return end as the calls of some serial order do: a call
\* either returns or raises the duplicate error, and once no call is under
\* way the registry, the category index and the bus are consistent.
C28_RegistryCallsAtomic ==
    /\ \A r \in DOMAIN reg :
          reg[r].pc = "raised" => reg[r].error = "duplicate"
    /\ (\A r \in DOMAIN reg : RegFinished(r)) => RegistryConsistent

\* ------------------------------------------------------ aborted executions
\* the execute_workflow call c is aborted in this step by the failure of a
\* step (the step at position exec'[c].cur)
AbortsAtStep(c) ==
    /\ exec[c].pc # "raised"
    /\ exec'[c].pc = "raised"
    /\ exec'[c].cur # 0

\* C30: when the failure of a step aborts an execution, that step is failed
\* with the error and is the only failed step of the workflow; every other
\* step is completed with its stored result or pending without result.
C30_PartialResultsKept ==
    [][\A c \in Calls :
          AbortsAtStep(c)
          => LET k == exec'[c].cur
                 w == workflows'[exec'[c].wf]
             IN /\ w.steps[k].status = "failed"
                /\ w.steps[k].error = exec'[c].error
                /\ \A j \in (1..Len(w.steps)) \ {k} :
                      \/ /\ w.steps[j].status = "completed"
                         /\ w.steps[j].result \in DataVals
                      \/ /\ w.steps[j].status = "pending"
                         /\ w.steps[j].result = NoData]_vars

\* -------------------------------------------------------- get_system_status
RECURSIVE SumOver(_, _)
\* the sum of the values of the dict counts over the keys in keys
SumOver(counts, keys) ==
    IF keys = {} THEN 0
    ELSE LET k == CHOOSE k \in keys : TRUE
         IN counts[k] + SumOver(counts, keys \ {k})

\* agent_manager.py:447-461: what get_system_status returns in the current
\* state (it reads the registry, the category index and the workflows
\* without suspending)
GetSystemStatus ==
    [running |-> running,
     total_agents |-> Cardinality(DOMAIN agents),
     agent_types |-> [t \in DOMAIN agent_types |->
                         Cardinality(agent_types[t])],
     active_workflows |->
         Cardinality({wid \in DOMAIN workflows :
                         workflows[wid].status \in {"pending", "running"}})]

\* the workflows get_system_status counts as active
CountedActive(wfs) ==
    {wid \in DOMAIN wfs : wfs[wid].status \in {"pending", "running"}}

\* C31: get_system_status reports per-category counts whose sum is
\* total_agents, the number of registrations, and an active_workflows count
\* that takes in a workflow from its creation until it is completed or
\* failed and never afterwards.
C31_SystemStatus ==
    /\ [](/\ GetSystemStatus.total_agents = Cardinality(DOMAIN agents)
          /\ SumOver(GetSystemStatus.agent_types,
                     DOMAIN GetSystemStatus.agent_types)
                = GetSystemStatus.total_agents
          /\ GetSystemStatus.active_workflows
                = Cardinality(CountedActive(workflows)))
    /\ [][\A wid \in DOMAIN workflows :
             wid \in CountedActive(workflows')
             => wid \in CountedActive(workflows)]_vars

\* ------------------------------------------------------ the life of a step
\* the execute_workflow call c dispatches a step to query_agent in this
\* step of the system: it comes to await the query of a step it was not
\* awaiting, or the step it starts fails before the query's first await
Dispatches(c, wid, k) ==
    \/ /\ exec'[c].pc = "await"
       /\ exec'[c].wf = wid
       /\ exec'[c].cur = k
       /\ exec[c].pc # "await" \/ exec[c].wf # wid \/ exec[c].cur # k
    \/ /\ exec[c].pc # "raised"
       /\ exec'[c].pc = "raised"
       /\ exec'[c].wf = wid
       /\ exec'[c].cur = k
       /\ exec[c].pc # "await" \/ exec[c].wf # wid \/ exec[c].cur # k

\* C32: a step is dispatched to query_agent only while it is pending, the
\* dispatch takes it out of pending, no step goes back to pending, and no
\* two calls await the query of the same step: over all calls on a
\* workflow, repeated or concurrent, a step is dispatched at most once.
C32_DispatchedOnce ==
    /\ [][\A c \in Calls : \A wid \in DOMAIN workflows :
            \A k \in StepIdx(wid) :
               Dispatches(c, wid, k)
               => /\ Steps(wid)[k].status = "pending"
                  /\ workflows'[wid].steps[k].status \in {"running", "failed"}
         ]_vars
    /\ [][\A wid \in DOMAIN workflows : \A k \in StepIdx(wid) :
            Steps(wid)[k].status # "pending"
            => workflows'[wid].steps[k].status # "pending"]_vars
    /\ [](\A c \in Calls, b \in Calls :
            (c # b /\ exec[c].pc = "await" /\ exec[b].pc = "await"
               /\ exec[c].wf = exec[b].wf)
            => exec[c].cur # exec[b].cur)

\* a second call on a workflow awaits a step while the workflow has a
\* failed and a completed step that it passed over
C32_Witness ==
    \E c \in Calls, b \in Calls :
        /\ c # b
        /\ exec[b].pc = "raised"
        /\ exec[b].wf = exec[c].wf
        /\ exec[c].pc = "await"
        /\ \E i \in StepIdx(exec[c].wf), j \in StepIdx(exec[c].wf) :
              /\ i < exec[c].cur
              /\ j < exec[c].cur
              /\ Steps(exec[c].wf)[i].status = "completed"
              /\ Steps(exec[c].wf)[j].status = "failed"

\* C33: in every stored workflow each dependency id of a step is the id of
\* a step at a strictly earlier position of the same workflow, and no step
\* of the system changes the dependency list of a stored step.
C33_DependenciesEarlierAndFixed ==
    /\ [](\A wid \in DOMAIN workflows : \A k \in StepIdx(wid) :
            \A d \in Range(Steps(wid)[k].dependencies) :
               \E j \in StepIdx(wid) :
                  j < k /\ Steps(wid)[j].step_id = d)
    /\ [][\A wid \in DOMAIN workflows :
            /\ wid \in DOMAIN workflows'
            /\ Len(workflows'[wid].steps) = Len(Steps(wid))
            /\ \A k \in StepIdx(wid) :
                  workflows'[wid].steps[k].dependencies =
                     Steps(wid)[k].dependencies]_vars

\* an execution has completed a workflow whose last step depends on both
\* steps before it
C33_Witness ==
    \E wid \in DOMAIN workflows :
        /\ workflows[wid].status = "completed"
        /\ Len(Steps(wid)) = 3
        /\ Steps(wid)[3].dependencies =
              <<Steps(wid)[1].step_id, Steps(wid)[2].step_id>>
        /\ Steps(wid)[3].status = "completed"

\* C34: whenever no register_agent or unregister_agent call is under way,
\* an agent id has a registration exactly when it is in the category set of
\* its registered type and exactly when it has a bus endpoint with a queue;
\* no id is in two category sets and no category set is empty.
C34_RegistryConsistency ==
    (\A r \in DOMAIN reg : RegFinished(r))
    => /\ \A a \in AgentIds :
             /\ a \in DOMAIN agents
                <=> \E t \in DOMAIN agent_types : a \in agent_types[t]
             /\ a \in DOMAIN agents
                <=> (a \in DOMAIN comm_agents /\ a \in DOMAIN message_queues)
             /\ a \in DOMAIN agents
                => /\ agents[a].agent_type \in DOMAIN agent_types
                   /\ a \in agent_types[agents[a].agent_type]
       /\ \A t \in DOMAIN agent_types, u \in DOMAIN agent_types :
             t # u => agent_types[t] \cap agent_types[u] = {}
       /\ \A t \in DOMAIN agent_types : agent_types[t] # {}

\* C35: every agent id in a subscription set is an endpoint of the bus with
\* a queue, and no publish_event call raises.
C35_SubscribersAreEndpoints ==
    /\ \A e \in DOMAIN subscriptions :
          \A a \in subscriptions[e] :
             a \in DOMAIN comm_agents /\ a \in DOMAIN message_queues
    /\ bus_result.op = "publish_event" => bus_result.returned # "KeyError"

\* C36: in one step of the system a pending step stays pending, starts
\* running or (when its query fails before its first await) is failed; a
\* running step stays running or is completed or failed; a completed or
\* failed step keeps its status, result and error.
C36_StepStatusMonotone ==
    [][\A wid \in DOMAIN workflows : \A k \in StepIdx(wid) :
          LET before == Steps(wid)[k]
              after == workflows'[wid].steps[k]
          IN /\ before.status = "pending"
                => /\ after.status \in {"pending", "running", "failed"}
                   /\ after.result = NoData
             /\ before.status = "running"
                => after.status \in {"running", "completed", "failed"}
             /\ before.status \in {"completed", "failed"}
                => /\ after.status = before.status
                   /\ after.result = before.result
                   /\ after.error = before.error]_vars

\* a second call on a workflow has ended while the workflow holds a
\* completed step with its result and a failed step with its error
C36_Witness ==
    \E c \in Calls, b \in Calls :
        /\ c # b
        /\ exec[c].pc = "raised"
        /\ exec[b].pc \in {"raised", "returned"}
        /\ exec[b].wf = exec[c].wf
        /\ exec[c].wf \in DOMAIN workflows
        /\ \E i \in StepIdx(exec[c].wf), j \in StepIdx(exec[c].wf) :
              /\ Steps(exec[c].wf)[i].status = "completed"
              /\ Steps(exec[c].wf)[i].result \in DataVals
              /\ Steps(exec[c].wf)[j].status = "failed"
              /\ Steps(exec[c].wf)[j].error # NoError

\* ------------------------------------------------------ delivery of messages
\* The event loop runs every task that is ready: a consumer task that was
\* created gets its first run, a consumer waiting on a queue that has an
\* item gets it, and every invocation of a handler returns or raises.
ConsumersFair ==
    \A p \in Tasks :
        /\ WF_vars(ProcessorRuns(p))
        /\ WF_vars(ProcessorGets(p))
        /\ WF_vars(\E result \in {NoResponse, Raises} :
                      HandlerReturns(p, result))

\* the endpoint the senders address; the other endpoint has its consumer
\* too
DeliveryRecipients == {"a1"}
\* senders of direct messages and handlers that return nothing or raise
DeliverySendMessage ==
    \E sender \in Senders, recipient \in DeliveryRecipients :
        SendMessage(sender, recipient, "normal")
DeliveryHandlerReturns ==
    \E p \in Tasks, result \in {NoResponse, Raises} :
        HandlerReturns(p, result)

NextDelivery ==
    \/ ConRegisterAgent
    \/ ConStart
    \/ ConStop
    \/ ConStopped
    \/ DeliverySendMessage
    \/ ConProcessorRuns
    \/ ConProcessorGets
    \/ ConProcessorTimesOut
    \/ DeliveryHandlerReturns
    \/ ConProcessorCancelled

SpecDelivery == Init /\ [][NextDelivery]_vars /\ ConsumersFair

\* the message with this id is in the queue of endpoint a
InQueue(a, id) ==
    /\ a \in DOMAIN message_queues
    /\ \E i \in 1..Len(message_queues[a]) :
          message_queues[a][i].message_id = id

\* the handler of endpoint a is invoked with the message with this id
Handling(a, id) ==
    \E p \in Tasks :
        /\ processors[p].pc = "handle"
        /\ processors[p].agent_id = a
        /\ processors[p].message.message_id = id

\* the places a message for endpoint a is at: positions of its queue and
\* invocations of its handler
PlacesOf(a, id) ==
    Cardinality({i \in 1..Len(message_queues[a]) :
                    message_queues[a][i].message_id = id})
    + Cardinality({p \in Tasks : /\ processors[p].pc = "handle"
                                 /\ processors[p].agent_id = a
                                 /\ processors[p].message.message_id = id})

\* C37: a message that is in the queue of an endpoint while the bus runs is
\* passed to the handler of that endpoint, unless the bus is stopped or the
\* endpoint unregistered first; a message is in one place at a time, in the
\* queue or with the handler, and a message that enters a queue is a new
\* one, so it is passed to the handler once.
C37_EventuallyHandledOnce ==
    /\ \A a \in BusIds, id \in 1..MaxMessages :
          (InQueue(a, id) /\ comm_running)
          ~> (Handling(a, id) \/ ~comm_running \/ a \notin DOMAIN comm_agents)
    /\ [](\A a \in DOMAIN message_queues, id \in 1..MaxMessages :
             PlacesOf(a, id) <= 1)
    /\ [][\A a \in DOMAIN message_queues, id \in 1..MaxMessages :
             (a \in DOMAIN message_queues' /\ InQueue(a, id)'
                 /\ ~InQueue(a, id))
             => id > next_uuid]_vars

\* the bus runs, the consumer task made first has ended, the first message
\* is with the handler of a later consumer and the second waits in the
\* same endpoint's queue
C37_Witness ==
    /\ comm_running
    /\ processors[1].pc = "done"
    /\ \E p \in Tasks :
          /\ processors[p].pc = "handle"
          /\ processors[p].message.message_id = 1
          /\ processors[p].agent_id \in DOMAIN message_queues
          /\ InQueue(processors[p].agent_id, 2)

\* ------------------------------------------------------ isolated executions
\* the workflows a step of the system changes
ChangedWorkflows ==
    {wid \in DOMAIN workflows : workflows'[wid] # workflows[wid]}

TakesStale(p) ==
    /\ processors[p].pc = "get"
    /\ processors'[p].pc = "handle"
    /\ processors[p].agent_id \in DOMAIN comm_agents
    /\ comm_agents[processors[p].agent_id] = processors[p].handler
    /\ processors[p].queue # queue_info[processors[p].agent_id].id

\* C39: the handler of an endpoint is invoked only with messages whose
\* recipient is that endpoint, and the handler bound to a registered endpoint
\* is never handed a message of the queue of an earlier registration of the
\* same id.
C39_NoMisdelivery ==
    /\ [](\A p \in Tasks :
            processors[p].pc = "handle"
            => processors[p].message.recipient_id = processors[p].agent_id)
    /\ [][\A p \in Tasks : ~TakesStale(p)]_vars

\* ------------------------------------------------------ cancelled tasks
\* the variables of the orchestration layer, which the task-queue manager
\* leaves alone
orchestrationVars ==
    <<agents, agent_types, comm_agents, message_queues, workflows, next_uuid,
      exec, reg, definition, running, utcnow, timestamps, query,
      health_check_task, comm_running, subscriptions, processors, queue_info,
      detached, bus_stop, bus_result>>

TqStart == StartManager /\ UNCHANGED orchestrationVars
TqStop == StopManager /\ UNCHANGED orchestrationVars
TqRegisterHandler ==
    \E a \in QueueAgents : RegisterHandler(a) /\ UNCHANGED orchestrationVars
TqSubmitTask ==
    \E a \in QueueAgents : SubmitTask(a) /\ UNCHANGED orchestrationVars
TqCancelTask ==
    \E id \in TaskIds : CancelTask(id) /\ UNCHANGED orchestrationVars
TqWorkerGets ==
    \E a \in QueueAgents : WorkerGets(a) /\ UNCHANGED orchestrationVars
TqWorkerStarted ==
    \E a \in QueueAgents : WorkerStarted(a) /\ UNCHANGED orchestrationVars
TqHandlerReturns ==
    \E a \in QueueAgents, outcome \in HandlerOutcomes :
        TaskHandlerReturns(a, outcome) /\ UNCHANGED orchestrationVars
TqWorkerPublished ==
    \E a \in QueueAgents : WorkerPublished(a) /\ UNCHANGED orchestrationVars

NextTasks ==
    \/ TqStart
    \/ TqStop
    \/ TqRegisterHandler
    \/ TqSubmitTask
    \/ TqCancelTask
    \/ TqWorkerGets
    \/ TqWorkerStarted
    \/ TqHandlerReturns
    \/ TqWorkerPublished

SpecTasks == Init /\ [][NextTasks]_vars

\* a cancel_task call on an unknown or finished task answers False and
\* leaves every task and queue as it was
RefusedCancelChangesNothing ==
    \A id \in TaskIds :
        (/\ cancel_result' # cancel_result
         /\ cancel_result'.task_id = id
         /\ (id \notin DOMAIN tasks \/ tasks[id].status \in FinalStatuses))
        => /\ cancel_result'.returned = "False"
           /\ UNCHANGED <<tasks, task_queues>>

\* a cancelled task stays cancelled and is not run (again)
CancelledStays ==
    \A id \in DOMAIN tasks :
        tasks[id].status = "cancelled"
        => /\ tasks'[id].status = "cancelled"
           /\ tasks'[id].runs = tasks[id].runs

\* a task cancelled while pending is never run
PendingCancelledNeverRuns ==
    \A id \in DOMAIN tasks :
        (tasks[id].status = "cancelled" /\ tasks[id].runs = 0)
        => /\ tasks'[id].status = "cancelled"
           /\ tasks'[id].runs = 0

\* C40: cancel_task answers False and changes nothing for an unknown or
\* finished task; once it has answered True the task stays cancelled: a
\* pending task is never run, and the end of the processing of a running task
\* does not overwrite the status.
C40_CancellationFinal ==
    /\ [][RefusedCancelChangesNothing]_vars
    /\ [][CancelledStays]_vars

\* the parts of the same that the code keeps
RefusedAndPendingHold ==
    /\ [][RefusedCancelChangesNothing]_vars
    /\ [][PendingCancelledNeverRuns]_vars

====
